---- MODULE Spec2Model ----
(***************************************************************************)
(* koffee: the resource table generator (package definition).              *)
(*                                                                         *)
(* State: the HumanReadableGenerator's handlerMap, and, as the observable  *)
(* record of the last call made on it, the call's arguments, what it       *)
(* returned (table, err) and which print function it ran (called).         *)
(* Strings are TLA+ strings; a Go pointer or error is a sequence of length *)
(* at most one (<<>> is nil).                                              *)
(***************************************************************************)
EXTENDS Integers, Sequences, FiniteSets, TLC

(* Bounds of the model. *)
MaxItems == 2
MaxNow == 2
MaxConditions == 2
MaxRules == 5
MaxSubsets == 2
MaxAddresses == 3
MaxSchemas == 3
MaxSignals == 3
MaxContainers == 2
MaxFetched == 1

VARIABLES handlerMap, call, table, err, called, packageVars, signals, server

vars == <<handlerMap, call, table, err, called, packageVars, signals, server>>

(***************************************************************************)
(* String helpers (package strings).                                       *)
(***************************************************************************)
RECURSIVE Join(_, _)
Join(list, sep) ==
  IF Len(list) = 0 THEN ""
  ELSE IF Len(list) = 1 THEN list[1]
  ELSE list[1] \o sep \o Join(Tail(list), sep)

HasPrefix(s, prefix) ==
  Len(s) >= Len(prefix) /\ SubSeq(s, 1, Len(prefix)) = prefix

TrimPrefix(s, prefix) ==
  IF HasPrefix(s, prefix) THEN SubSeq(s, Len(prefix) + 1, Len(s)) ELSE s

RECURSIVE Count(_, _)
Count(s, ch) ==
  IF Len(s) = 0 THEN 0
  ELSE (IF SubSeq(s, 1, 1) = ch THEN 1 ELSE 0) + Count(SubSeq(s, 2, Len(s)), ch)

(***************************************************************************)
(* reflect.Value of a candidate print function: its Kind and, for a        *)
(* function, its parameter and result types.                               *)
(***************************************************************************)
TableRowSliceType == "[]metav1.TableRow"
ErrorType == "error"

FuncValue(name, in, out) == [Kind |-> "func", Name |-> name, In |-> in, Out |-> out]

NonFuncValue(name) == [Kind |-> "string", Name |-> name, In |-> <<>>, Out |-> <<>>]

ListFunc(name, listType) == FuncValue(name, <<listType>>, <<TableRowSliceType, ErrorType>>)

Col(name, priority) == [Name |-> name, Priority |-> priority]

(***************************************************************************)
(* Handler registry.                                                       *)
(***************************************************************************)
NewTableGenerator == [t \in {} |-> [columnDefinitions |-> <<>>, printFunc |-> NonFuncValue("")]]

(* Faulty variant of ValidateRowPrintHandlerFunc: the parameter and result
   counts are not compared with 1 and 2. *)
ValidateWithoutArity(printFunc) ==
  IF printFunc.Kind # "func"
  THEN <<"invalid print handler. " \o printFunc.Name \o " is not a function">>
  ELSE IF /\ Len(printFunc.Out) >= 2
          /\ (printFunc.Out[1] # TableRowSliceType \/ printFunc.Out[2] # ErrorType)
  THEN <<"invalid print handler. The expected signature is: func handler(obj "
           \o printFunc.In[1] \o ") ([]metav1.TableRow, error)">>
  ELSE <<>>

ValidateRowPrintHandlerFunc(printFunc) ==
  IF printFunc.Kind # "func"
  THEN <<"invalid print handler. " \o printFunc.Name \o " is not a function">>
  ELSE IF Len(printFunc.In) # 1 \/ Len(printFunc.Out) # 2
  THEN <<"invalid print handler.Must accept 1 parameters and return 2 value">>
  ELSE IF printFunc.Out[1] # TableRowSliceType \/ printFunc.Out[2] # ErrorType
  THEN <<"invalid print handler. The expected signature is: func handler(obj "
           \o printFunc.In[1] \o ") ([]metav1.TableRow, error)">>
  ELSE <<>>

(* Faulty variant of TableHandler: a registration for a type already present
   replaces the stored entry. *)
TableHandlerOverwriting(h, columnDefinitions, printFunc) ==
  LET verr == ValidateRowPrintHandlerFunc(printFunc) IN
  IF verr # <<>>
  THEN [handlerMap |-> h, err |-> verr]
  ELSE [handlerMap |-> (printFunc.In[1] :> [columnDefinitions |-> columnDefinitions,
                                            printFunc |-> printFunc]) @@ h,
        err |-> <<>>]

(* h.TableHandler(columnDefinitions, printFunc): the map afterwards and the
   error returned. *)
TableHandler(h, columnDefinitions, printFunc) ==
  LET verr == ValidateRowPrintHandlerFunc(printFunc) IN
  IF verr # <<>>
  THEN [handlerMap |-> h, err |-> verr]
  ELSE LET entry == [columnDefinitions |-> columnDefinitions, printFunc |-> printFunc]
           objType == printFunc.In[1]
       IN IF objType \in DOMAIN h
          THEN [handlerMap |-> h,
                err |-> <<"registered duplicate printer for " \o objType>>]
          ELSE [handlerMap |-> h @@ (objType :> entry), err |-> <<>>]

(* AddHandlers: the catalog of registrations, in call order. Each entry is one
   `_ = h.TableHandler(<columns>, <print function>)` of the source. *)
AddHandlersCalls ==
  <<
    [printFunc |-> ListFunc("printPodList", "*corev1.PodList"),
     columnDefinitions |-> << Col("Name", 0), Col("Ready", 0), Col("Status", 0), Col("Restarts", 0), Col("Age", 0), Col("IP", 1), Col("Node", 1), Col("Nominated Node", 1), Col("Readiness Gates", 1) >>],
    [printFunc |-> ListFunc("printPodDisruptionBudgetList", "*policyv1.PodDisruptionBudgetList"),
     columnDefinitions |-> << Col("Name", 0), Col("Min Available", 0), Col("Max Unavailable", 0), Col("Allowed Disruptions", 0), Col("Age", 0) >>],
    [printFunc |-> ListFunc("printReplicaSetList", "*appsv1.ReplicaSetList"),
     columnDefinitions |-> << Col("Name", 0), Col("Desired", 0), Col("Current", 0), Col("Ready", 0), Col("Age", 0), Col("Containers", 1), Col("Images", 1), Col("Selector", 1) >>],
    [printFunc |-> ListFunc("printDaemonSetList", "*appsv1.DaemonSetList"),
     columnDefinitions |-> << Col("Name", 0), Col("Desired", 0), Col("Current", 0), Col("Ready", 0), Col("Up-to-date", 0), Col("Available", 0), Col("Node Selector", 0), Col("Age", 0), Col("Containers", 1), Col("Images", 1), Col("Selector", 1) >>],
    [printFunc |-> ListFunc("printJobList", "*batchv1.JobList"),
     columnDefinitions |-> << Col("Name", 0), Col("Status", 0), Col("Completions", 0), Col("Duration", 0), Col("Age", 0), Col("Containers", 1), Col("Images", 1), Col("Selector", 1) >>],
    [printFunc |-> ListFunc("printCronJobList", "*batchv1.CronJobList"),
     columnDefinitions |-> << Col("Name", 0), Col("Schedule", 0), Col("Timezone", 0), Col("Suspend", 0), Col("Active", 0), Col("Last Schedule", 0), Col("Age", 0), Col("Containers", 1), Col("Images", 1), Col("Selector", 1) >>],
    [printFunc |-> ListFunc("printServiceList", "*corev1.ServiceList"),
     columnDefinitions |-> << Col("Name", 0), Col("Type", 0), Col("Cluster-IP", 0), Col("External-IP", 0), Col("Port(s)", 0), Col("Age", 0), Col("Selector", 1) >>],
    [printFunc |-> ListFunc("printIngressList", "*networkingv1.IngressList"),
     columnDefinitions |-> << Col("Name", 0), Col("Class", 0), Col("Hosts", 0), Col("Address", 0), Col("Ports", 0), Col("Age", 0) >>],
    [printFunc |-> ListFunc("printIngressClassList", "*networkingv1.IngressClassList"),
     columnDefinitions |-> << Col("Name", 0), Col("Controller", 0), Col("Parameters", 0), Col("Age", 0) >>],
    [printFunc |-> ListFunc("printStatefulSetList", "*appsv1.StatefulSetList"),
     columnDefinitions |-> << Col("Name", 0), Col("Ready", 0), Col("Age", 0), Col("Containers", 1), Col("Images", 1) >>],
    [printFunc |-> ListFunc("printEndpointsList", "*corev1.EndpointsList"),
     columnDefinitions |-> << Col("Name", 0), Col("Endpoints", 0), Col("Age", 0) >>],
    [printFunc |-> ListFunc("printNodeList", "*corev1.NodeList"),
     columnDefinitions |-> << Col("Name", 0), Col("Status", 0), Col("Roles", 0), Col("Age", 0), Col("Version", 0), Col("Internal-IP", 1), Col("External-IP", 1), Col("OS-Image", 1), Col("Kernel-Version", 1), Col("Container-Runtime", 1) >>],
    [printFunc |-> ListFunc("printEventList", "*corev1.EventList"),
     columnDefinitions |-> << Col("Last Seen", 0), Col("Type", 0), Col("Reason", 0), Col("Object", 0), Col("Subobject", 1), Col("Source", 1), Col("Message", 0), Col("First Seen", 1), Col("Count", 1), Col("Name", 1) >>],
    [printFunc |-> ListFunc("printNamespaceList", "*corev1.NamespaceList"),
     columnDefinitions |-> << Col("Name", 0), Col("Status", 0), Col("Age", 0) >>],
    [printFunc |-> ListFunc("printSecretList", "*corev1.SecretList"),
     columnDefinitions |-> << Col("Name", 0), Col("Type", 0), Col("Data", 0), Col("Age", 0) >>],
    [printFunc |-> ListFunc("printServiceAccountList", "*corev1.ServiceAccountList"),
     columnDefinitions |-> << Col("Name", 0), Col("Secrets", 0), Col("Age", 0) >>],
    [printFunc |-> ListFunc("printPersistentVolumeList", "*corev1.PersistentVolumeList"),
     columnDefinitions |-> << Col("Name", 0), Col("Capacity", 0), Col("Access Modes", 0), Col("Reclaim Policy", 0), Col("Status", 0), Col("Claim", 0), Col("StorageClass", 0), Col("VolumeAttributesClass", 0), Col("Reason", 0), Col("Age", 0), Col("VolumeMode", 1) >>],
    [printFunc |-> ListFunc("printPersistentVolumeClaimList", "*corev1.PersistentVolumeClaimList"),
     columnDefinitions |-> << Col("Name", 0), Col("Status", 0), Col("Volume", 0), Col("Capacity", 0), Col("Access Modes", 0), Col("StorageClass", 0), Col("VolumeAttributesClass", 0), Col("Age", 0), Col("VolumeMode", 1) >>],
    [printFunc |-> ListFunc("printDeploymentList", "*appsv1.DeploymentList"),
     columnDefinitions |-> << Col("Name", 0), Col("Ready", 0), Col("Up-to-date", 0), Col("Available", 0), Col("Age", 0), Col("Containers", 1), Col("Images", 1), Col("Selector", 1) >>],
    [printFunc |-> ListFunc("printHorizontalPodAutoscalerList", "*autoscalingv2.HorizontalPodAutoscalerList"),
     columnDefinitions |-> << Col("Name", 0), Col("Reference", 0), Col("Targets", 0), Col("MinPods", 0), Col("MaxPods", 0), Col("Replicas", 0), Col("Age", 0) >>],
    [printFunc |-> ListFunc("printConfigMapList", "*corev1.ConfigMapList"),
     columnDefinitions |-> << Col("Name", 0), Col("Data", 0), Col("Age", 0) >>],
    [printFunc |-> ListFunc("printNetworkPolicyList", "*networkingv1.NetworkPolicyList"),
     columnDefinitions |-> << Col("Name", 0), Col("Pod-Selector", 0), Col("Age", 0) >>],
    [printFunc |-> ListFunc("printRoleBindingList", "*rbacv1.RoleBindingList"),
     columnDefinitions |-> << Col("Name", 0), Col("Role", 0), Col("Age", 0), Col("Users", 1), Col("Groups", 1), Col("ServiceAccounts", 1) >>],
    [printFunc |-> ListFunc("printClusterRoleBindingList", "*rbacv1.ClusterRoleBindingList"),
     columnDefinitions |-> << Col("Name", 0), Col("Role", 0), Col("Age", 0), Col("Users", 1), Col("Groups", 1), Col("ServiceAccounts", 1) >>],
    [printFunc |-> ListFunc("printCertificateSigningRequestList", "*certificatesv1.CertificateSigningRequestList"),
     columnDefinitions |-> << Col("Name", 0), Col("Age", 0), Col("SignerName", 0), Col("Requestor", 0), Col("RequestedDuration", 0), Col("Condition", 0) >>],
    [printFunc |-> ListFunc("printLeaseList", "*coordinationv1.LeaseList"),
     columnDefinitions |-> << Col("Name", 0), Col("Holder", 0), Col("Age", 0) >>],
    [printFunc |-> ListFunc("printStorageClassList", "*storagev1.StorageClassList"),
     columnDefinitions |-> << Col("Name", 0), Col("Provisioner", 0), Col("ReclaimPolicy", 0), Col("VolumeBindingMode", 0), Col("AllowVolumeExpansion", 0), Col("Age", 0) >>],
    [printFunc |-> ListFunc("printControllerRevisionList", "*appsv1.ControllerRevisionList"),
     columnDefinitions |-> << Col("Name", 0), Col("Controller", 0), Col("Revision", 0), Col("Age", 0) >>],
    [printFunc |-> ListFunc("printResourceQuotaList", "*corev1.ResourceQuotaList"),
     columnDefinitions |-> << Col("Name", 0), Col("Age", 0), Col("Request", 0), Col("Limit", 0) >>],
    [printFunc |-> ListFunc("printPriorityClassList", "*schedulingv1.PriorityClassList"),
     columnDefinitions |-> << Col("Name", 0), Col("Value", 0), Col("Global-Default", 0), Col("Age", 0), Col("PreemptionPolicy", 0) >>],
    [printFunc |-> ListFunc("printRuntimeClassList", "*nodev1.RuntimeClassList"),
     columnDefinitions |-> << Col("Name", 0), Col("Handler", 0), Col("Age", 0) >>],
    [printFunc |-> ListFunc("printVolumeAttachmentList", "*storagev1.VolumeAttachmentList"),
     columnDefinitions |-> << Col("Name", 0), Col("Attacher", 0), Col("PV", 0), Col("Node", 0), Col("Attached", 0), Col("Age", 0) >>],
    [printFunc |-> ListFunc("printEndpointSliceList", "*discoveryv1.EndpointSliceList"),
     columnDefinitions |-> << Col("Name", 0), Col("AddressType", 0), Col("Ports", 0), Col("Endpoints", 0), Col("Age", 0) >>],
    [printFunc |-> ListFunc("printCSINodeList", "*storagev1.CSINodeList"),
     columnDefinitions |-> << Col("Name", 0), Col("Drivers", 0), Col("Age", 0) >>],
    [printFunc |-> ListFunc("printCSIDriverList", "*storagev1.CSIDriverList"),
     columnDefinitions |-> << Col("Name", 0), Col("AttachRequired", 0), Col("PodInfoOnMount", 0), Col("StorageCapacity", 0), Col("TokenRequests", 0), Col("RequiresRepublish", 0), Col("Modes", 0), Col("Age", 0) >>],
    [printFunc |-> ListFunc("printCSIStorageCapacityList", "*storagev1.CSIStorageCapacityList"),
     columnDefinitions |-> << Col("Name", 0), Col("StorageClassName", 0), Col("Capacity", 0) >>],
    [printFunc |-> ListFunc("printMutatingWebhookList", "*admissionregistrationv1.MutatingWebhookConfigurationList"),
     columnDefinitions |-> << Col("Name", 0), Col("Webhooks", 0), Col("Age", 0) >>],
    [printFunc |-> ListFunc("printValidatingWebhookList", "*admissionregistrationv1.ValidatingWebhookConfigurationList"),
     columnDefinitions |-> << Col("Name", 0), Col("Webhooks", 0), Col("Age", 0) >>],
    [printFunc |-> ListFunc("printFlowSchemaList", "*flowcontrolv1.FlowSchemaList"),
     columnDefinitions |-> << Col("Name", 0), Col("PriorityLevel", 0), Col("MatchingPrecedence", 0), Col("DistinguisherMethod", 0), Col("Age", 0), Col("MissingPL", 0) >>],
    [printFunc |-> ListFunc("printPriorityLevelConfigurationList", "*flowcontrolv1.PriorityLevelConfigurationList"),
     columnDefinitions |-> << Col("Name", 0), Col("Type", 0), Col("NominalConcurrencyShares", 0), Col("Queues", 0), Col("HandSize", 0), Col("QueueLengthLimit", 0), Col("Age", 0) >>],
    [printFunc |-> ListFunc("printResourceClaimList", "*resourcev1beta1.ResourceClaimList"),
     columnDefinitions |-> << Col("Name", 0), Col("State", 0), Col("Age", 0) >>],
    [printFunc |-> ListFunc("printResourceSliceList", "*resourcev1beta1.ResourceSliceList"),
     columnDefinitions |-> << Col("Name", 0), Col("Node", 0), Col("Driver", 0), Col("Pool", 0), Col("Age", 0) >>]
  >>

(* AddHandlers(h): every registration of the catalog applied in order, each
   returned error discarded (`_ =`). *)
RECURSIVE AddHandlersFrom(_, _)
AddHandlersFrom(h, i) ==
  IF i > Len(AddHandlersCalls) THEN h
  ELSE LET r == TableHandler(h, AddHandlersCalls[i].columnDefinitions,
                             AddHandlersCalls[i].printFunc)
       IN IF DOMAIN r.handlerMap = {} THEN h ELSE AddHandlersFrom(r.handlerMap, i + 1)

(* Faulty variant of AddHandlers: the first registration (pods) is left out. *)
AddHandlersWithoutPods(h) == AddHandlersFrom(h, 2)

AddHandlers(h) == AddHandlersFrom(h, 1)

(* The per-item printer each print<Kind>List loops over
   (`r, err := print<Kind>(&list.Items[i])`). *)
ItemPrinter(listFunc) ==
  CASE listFunc = "printPodList" -> "printPod"
    [] listFunc = "printPodDisruptionBudgetList" -> "printPodDisruptionBudget"
    [] listFunc = "printReplicaSetList" -> "printReplicaSet"
    [] listFunc = "printDaemonSetList" -> "printDaemonSet"
    [] listFunc = "printJobList" -> "printJob"
    [] listFunc = "printCronJobList" -> "printCronJob"
    [] listFunc = "printServiceList" -> "printService"
    [] listFunc = "printIngressList" -> "printIngress"
    [] listFunc = "printIngressClassList" -> "printIngressClass"
    [] listFunc = "printStatefulSetList" -> "printStatefulSet"
    [] listFunc = "printEndpointsList" -> "printEndpoints"
    [] listFunc = "printNodeList" -> "printNode"
    [] listFunc = "printEventList" -> "printEvent"
    [] listFunc = "printNamespaceList" -> "printNamespace"
    [] listFunc = "printSecretList" -> "printSecret"
    [] listFunc = "printServiceAccountList" -> "printServiceAccount"
    [] listFunc = "printPersistentVolumeList" -> "printPersistentVolume"
    [] listFunc = "printPersistentVolumeClaimList" -> "printPersistentVolumeClaim"
    [] listFunc = "printDeploymentList" -> "printDeployment"
    [] listFunc = "printHorizontalPodAutoscalerList" -> "printHorizontalPodAutoscaler"
    [] listFunc = "printConfigMapList" -> "printConfigMap"
    [] listFunc = "printNetworkPolicyList" -> "printNetworkPolicy"
    [] listFunc = "printRoleBindingList" -> "printRoleBinding"
    [] listFunc = "printClusterRoleBindingList" -> "printClusterRoleBinding"
    [] listFunc = "printCertificateSigningRequestList" -> "printCertificateSigningRequest"
    [] listFunc = "printLeaseList" -> "printLease"
    [] listFunc = "printStorageClassList" -> "printStorageClass"
    [] listFunc = "printControllerRevisionList" -> "printControllerRevision"
    [] listFunc = "printResourceQuotaList" -> "printResourceQuota"
    [] listFunc = "printPriorityClassList" -> "printPriorityClass"
    [] listFunc = "printRuntimeClassList" -> "printRuntimeClass"
    [] listFunc = "printVolumeAttachmentList" -> "printVolumeAttachment"
    [] listFunc = "printEndpointSliceList" -> "printEndpointSlice"
    [] listFunc = "printCSINodeList" -> "printCSINode"
    [] listFunc = "printCSIDriverList" -> "printCSIDriver"
    [] listFunc = "printCSIStorageCapacityList" -> "printCSIStorageCapacity"
    [] listFunc = "printMutatingWebhookList" -> "printMutatingWebhook"
    [] listFunc = "printValidatingWebhookList" -> "printValidatingWebhook"
    [] listFunc = "printFlowSchemaList" -> "printFlowSchema"
    [] listFunc = "printPriorityLevelConfigurationList" -> "printPriorityLevelConfiguration"
    [] listFunc = "printResourceClaimList" -> "printResourceClaim"
    [] listFunc = "printResourceSliceList" -> "printResourceSlice"

(* The cells each per-item printer appends to row.Cells, in order, named by the
   Go expression appended. Every printer appends the cells of all its columns,
   wide ones included. *)
RowCells(itemFunc) ==
  CASE itemFunc = "printPod" ->
       << "pod.Name", "fmt.Sprintf('%d/%d', readyContainers, totalContainers)", "reason", "restartsStr", "translateTimestampSince(pod.CreationTimestamp)", "podIP", "nodeName", "nominatedNodeName", "readinessGates" >>
    [] itemFunc = "printPodDisruptionBudget" ->
       << "obj.Name", "minAvailable", "maxUnavailable", "int64(obj.Status.DisruptionsAllowed)", "translateTimestampSince(obj.CreationTimestamp)" >>
    [] itemFunc = "printReplicaSet" ->
       << "obj.Name", "ptr.Deref(desiredReplicas, 0)", "int64(currentReplicas)", "int64(readyReplicas)", "translateTimestampSince(obj.CreationTimestamp)", "names", "images", "metav1.FormatLabelSelector(obj.Spec.Selector)" >>
    [] itemFunc = "printDaemonSet" ->
       << "obj.Name", "int64(desiredScheduled)", "int64(currentScheduled)", "int64(numberReady)", "int64(numberUpdated)", "int64(numberAvailable)", "labels.FormatLabels(obj.Spec.Template.Spec.NodeSelector)", "translateTimestampSince(obj.CreationTimestamp)", "names", "images", "metav1.FormatLabelSelector(obj.Spec.Selector)" >>
    [] itemFunc = "printJob" ->
       << "obj.Name", "status", "completions", "jobDuration", "translateTimestampSince(obj.CreationTimestamp)", "names", "images", "metav1.FormatLabelSelector(obj.Spec.Selector)" >>
    [] itemFunc = "printCronJob" ->
       << "obj.Name", "obj.Spec.Schedule", "timeZone", "printBoolPtr(obj.Spec.Suspend)", "int64(len(obj.Status.Active))", "lastScheduleTime", "translateTimestampSince(obj.CreationTimestamp)", "names", "images", "metav1.FormatLabelSelector(obj.Spec.JobTemplate.Spec.Selector)" >>
    [] itemFunc = "printService" ->
       << "obj.Name", "string(svcType)", "internalIP", "externalIP", "svcPorts", "translateTimestampSince(obj.CreationTimestamp)", "labels.FormatLabels(obj.Spec.Selector)" >>
    [] itemFunc = "printIngress" ->
       << "obj.Name", "className", "hosts", "address", "ports", "createTime" >>
    [] itemFunc = "printIngressClass" ->
       << "obj.Name", "obj.Spec.Controller", "parameters", "createTime" >>
    [] itemFunc = "printStatefulSet" ->
       << "obj.Name", "fmt.Sprintf('%d/%d', int64(readyReplicas), ptr.Deref(desiredReplicas, 0))", "createTime", "names", "images" >>
    [] itemFunc = "printEndpoints" ->
       << "obj.Name", "formatEndpoints(obj, nil)", "translateTimestampSince(obj.CreationTimestamp)" >>
    [] itemFunc = "printNode" ->
       << "obj.Name", "strings.Join(status, ',')", "roles", "translateTimestampSince(obj.CreationTimestamp)", "obj.Status.NodeInfo.KubeletVersion", "getNodeInternalIP(obj)", "getNodeExternalIP(obj)", "osImage", "kernelVersion", "crVersion" >>
    [] itemFunc = "printEvent" ->
       << "lastTimestamp", "obj.Type", "obj.Reason", "target", "obj.InvolvedObject.FieldPath", "formatEventSource(obj.Source, obj.ReportingController, obj.ReportingInstance)", "strings.TrimSpace(obj.Message)", "firstTimestamp", "int64(count)", "obj.Name" >>
    [] itemFunc = "printNamespace" ->
       << "obj.Name", "string(obj.Status.Phase)", "translateTimestampSince(obj.CreationTimestamp)" >>
    [] itemFunc = "printSecret" ->
       << "obj.Name", "string(obj.Type)", "int64(len(obj.Data))", "translateTimestampSince(obj.CreationTimestamp)" >>
    [] itemFunc = "printServiceAccount" ->
       << "obj.Name", "int64(len(obj.Secrets))", "translateTimestampSince(obj.CreationTimestamp)" >>
    [] itemFunc = "printPersistentVolume" ->
       << "obj.Name", "aSize", "modesStr", "reclaimPolicyStr", "string(phase)", "claimRefUID", "GetPersistentVolumeClass(obj)", "volumeAttributeClass", "obj.Status.Reason", "translateTimestampSince(obj.CreationTimestamp)", "volumeMode" >>
    [] itemFunc = "printPersistentVolumeClaim" ->
       << "obj.Name", "string(phase)", "obj.Spec.VolumeName", "capacity", "accessModes", "GetPersistentVolumeClaimClass(obj)", "volumeAttributeClass", "translateTimestampSince(obj.CreationTimestamp)", "volumeMode" >>
    [] itemFunc = "printDeployment" ->
       << "obj.Name", "fmt.Sprintf('%d/%d', int64(readyReplicas), ptr.Deref(desiredReplicas, 0))", "int64(updatedReplicas)", "int64(availableReplicas)", "age", "containerNames", "images", "selectorString" >>
    [] itemFunc = "printHorizontalPodAutoscaler" ->
       << "obj.Name", "reference", "metrics", "minPods", "int64(maxPods)", "int64(currentReplicas)", "translateTimestampSince(obj.CreationTimestamp)" >>
    [] itemFunc = "printConfigMap" ->
       << "obj.Name", "int64(len(obj.Data)+len(obj.BinaryData))", "translateTimestampSince(obj.CreationTimestamp)" >>
    [] itemFunc = "printNetworkPolicy" ->
       << "obj.Name", "metav1.FormatLabelSelector(&obj.Spec.PodSelector)", "translateTimestampSince(obj.CreationTimestamp)" >>
    [] itemFunc = "printRoleBinding" ->
       << "obj.Name", "roleRef", "translateTimestampSince(obj.CreationTimestamp)", "strings.Join(users, ', ')", "strings.Join(groups, ', ')", "strings.Join(sas, ', ')" >>
    [] itemFunc = "printClusterRoleBinding" ->
       << "obj.Name", "roleRef", "translateTimestampSince(obj.CreationTimestamp)", "strings.Join(users, ', ')", "strings.Join(groups, ', ')", "strings.Join(sas, ', ')" >>
    [] itemFunc = "printCertificateSigningRequest" ->
       << "obj.Name", "translateTimestampSince(obj.CreationTimestamp)", "signerName", "obj.Spec.Username", "requestedDuration", "status" >>
    [] itemFunc = "printLease" ->
       << "obj.Name", "holderIdentity", "translateTimestampSince(obj.CreationTimestamp)" >>
    [] itemFunc = "printStorageClass" ->
       << "name", "provisionerType", "reclaimPolicy", "volumeBindingMode", "allowVolumeExpansion", "translateTimestampSince(obj.CreationTimestamp)" >>
    [] itemFunc = "printControllerRevision" ->
       << "obj.Name", "controllerName", "revision", "age" >>
    [] itemFunc = "printResourceQuota" ->
       << "resourceQuota.Name", "age", "strings.TrimSuffix(requestColumn.String(), ', ')", "strings.TrimSuffix(limitColumn.String(), ', ')" >>
    [] itemFunc = "printPriorityClass" ->
       << "name", "int64(value)", "globalDefault", "translateTimestampSince(obj.CreationTimestamp)", "preemptionPolicy" >>
    [] itemFunc = "printRuntimeClass" ->
       << "name", "handler", "translateTimestampSince(obj.CreationTimestamp)" >>
    [] itemFunc = "printVolumeAttachment" ->
       << "name", "obj.Spec.Attacher", "pvName", "obj.Spec.NodeName", "obj.Status.Attached", "translateTimestampSince(obj.CreationTimestamp)" >>
    [] itemFunc = "printEndpointSlice" ->
       << "obj.Name", "string(obj.AddressType)", "formatDiscoveryPorts(obj.Ports)", "formatDiscoveryEndpoints(obj.Endpoints)", "translateTimestampSince(obj.CreationTimestamp)" >>
    [] itemFunc = "printCSINode" ->
       << "obj.Name", "int64(len(obj.Spec.Drivers))", "translateTimestampSince(obj.CreationTimestamp)" >>
    [] itemFunc = "printCSIDriver" ->
       << "obj.Name", "attachRequired", "podInfoOnMount", "storageCapacity", "tokenRequests", "requiresRepublish", "modes", "translateTimestampSince(obj.CreationTimestamp)" >>
    [] itemFunc = "printCSIStorageCapacity" ->
       << "obj.Name", "obj.StorageClassName", "capacity" >>
    [] itemFunc = "printMutatingWebhook" ->
       << "obj.Name", "int64(len(obj.Webhooks))", "translateTimestampSince(obj.CreationTimestamp)" >>
    [] itemFunc = "printValidatingWebhook" ->
       << "obj.Name", "int64(len(obj.Webhooks))", "translateTimestampSince(obj.CreationTimestamp)" >>
    [] itemFunc = "printFlowSchema" ->
       << "name", "plName", "int64(obj.Spec.MatchingPrecedence)", "distinguisherMethod", "translateTimestampSince(obj.CreationTimestamp)", "badPLRef" >>
    [] itemFunc = "printPriorityLevelConfiguration" ->
       << "name", "string(obj.Spec.Type)", "ncs", "queues", "handSize", "queueLengthLimit", "translateTimestampSince(obj.CreationTimestamp)" >>
    [] itemFunc = "printResourceClaim" ->
       << "obj.Name", "resourceClaimState(obj)", "translateTimestampSince(obj.CreationTimestamp)" >>
    [] itemFunc = "printResourceSlice" ->
       << "obj.Name", "obj.Spec.NodeName", "obj.Spec.Driver", "obj.Spec.Pool.Name", "translateTimestampSince(obj.CreationTimestamp)" >>
(***************************************************************************)
(* Formatting helpers.                                                     *)
(***************************************************************************)
(* translateTimestampSince: 0 is the zero time; the clock reads `now`, in
   seconds (duration.HumanDuration prints seconds up to two minutes). *)
translateTimestampSince(timestamp, now) ==
  IF timestamp = 0 THEN "<unknown>"
  ELSE LET seconds == now - timestamp IN
       IF seconds < -1 THEN "<invalid>"
       ELSE IF seconds < 0 THEN "0s"
       ELSE ToString(seconds) \o "s"

(* sets.Set.UnsortedList: the members in map-iteration order, which Go leaves
   unspecified and randomises: any enumeration of the set. *)
UnsortedList(set) ==
  { l \in [1..Cardinality(set) -> set] : { l[i] : i \in 1..Cardinality(set) } = set }

loadBalancerWidth == 16

(* loadBalancerStatusStringer(s, wide): the strings it may return. *)
loadBalancerStatusStringer(ingress, wide) ==
  LET result == { (IF ingress[i].IP # "" THEN ingress[i].IP ELSE ingress[i].Hostname) :
                    i \in { j \in 1..Len(ingress) :
                              ingress[j].IP # "" \/ ingress[j].Hostname # "" } }
  IN { LET r == Join(l, ",") IN
       IF ~wide /\ Len(r) > loadBalancerWidth
       THEN SubSeq(r, 1, loadBalancerWidth - 3) \o "..."
       ELSE r
       : l \in UnsortedList(result) }

(* ingressLoadBalancerStatusStringer(s, wide): same computation on an
   Ingress's load-balancer status. *)
ingressLoadBalancerStatusStringer(ingress, wide) ==
  LET result == { (IF ingress[i].IP # "" THEN ingress[i].IP ELSE ingress[i].Hostname) :
                    i \in { j \in 1..Len(ingress) :
                              ingress[j].IP # "" \/ ingress[j].Hostname # "" } }
  IN { LET r == Join(l, ",") IN
       IF ~wide /\ Len(r) > loadBalancerWidth
       THEN SubSeq(r, 1, loadBalancerWidth - 3) \o "..."
       ELSE r
       : l \in UnsortedList(result) }

getServiceExternalIP(svc, wide) ==
  CASE svc.Type \in {"ClusterIP", "NodePort"} ->
         { IF Len(svc.ExternalIPs) > 0 THEN Join(svc.ExternalIPs, ",") ELSE "<none>" }
    [] svc.Type = "LoadBalancer" ->
         { IF Len(svc.ExternalIPs) > 0
           THEN (IF Len(lbIps) > 0
                 THEN lbIps \o "," \o Join(svc.ExternalIPs, ",")
                 ELSE Join(svc.ExternalIPs, ","))
           ELSE IF Len(lbIps) > 0 THEN lbIps ELSE "<pending>"
           : lbIps \in loadBalancerStatusStringer(svc.Ingress, wide) }
    [] svc.Type = "ExternalName" -> { svc.ExternalName }
    [] OTHER -> { "<unknown>" }

labelNodeRolePrefix == "node-role.kubernetes.io/"
nodeLabelRole == "kubernetes.io/role"

(* findNodeRoles(node): the role lists it may return. node.Labels is a map. *)
findNodeRoles(node) ==
  LET roles == { TrimPrefix(k, labelNodeRolePrefix) :
                   k \in { k \in DOMAIN node.Labels :
                             /\ HasPrefix(k, labelNodeRolePrefix)
                             /\ Len(TrimPrefix(k, labelNodeRolePrefix)) > 0 } }
                \cup
               { node.Labels[k] :
                   k \in { k \in DOMAIN node.Labels :
                             /\ ~HasPrefix(k, labelNodeRolePrefix)
                             /\ k = nodeLabelRole /\ node.Labels[k] # "" } }
  IN UnsortedList(roles)

(* strings.ToLower on the kind names the model's objects use. *)
ToLower(s) ==
  CASE s = "StatefulSet.apps" -> "statefulset.apps"
    [] s = "DaemonSet" -> "daemonset"
    [] OTHER -> s

(* schema.ParseGroupVersion: [Group, Version, err]. *)
ParseGroupVersion(gv) ==
  IF Len(gv) = 0 \/ gv = "/"
  THEN [Group |-> "", Version |-> "", err |-> <<>>]
  ELSE IF Count(gv, "/") = 0
  THEN [Group |-> "", Version |-> gv, err |-> <<>>]
  ELSE IF Count(gv, "/") = 1
  THEN LET i == CHOOSE k \in 1..Len(gv) : SubSeq(gv, k, k) = "/" IN
       [Group |-> SubSeq(gv, 1, i - 1), Version |-> SubSeq(gv, i + 1, Len(gv)), err |-> <<>>]
  ELSE [Group |-> "", Version |-> "", err |-> <<"unexpected GroupVersion string: " \o gv>>]

(* formatResourceName(kind, name, withKind), kind a schema.GroupKind. *)
formatResourceName(kind, name, withKind) ==
  IF ~withKind \/ (kind.Group = "" /\ kind.Kind = "") THEN name
  ELSE ToLower(IF kind.Group = "" THEN kind.Kind ELSE kind.Kind \o "." \o kind.Group)
         \o "/" \o name

(* `maximum := 3` of formatEndpoints, formatDiscoveryPorts,
   formatDiscoveryEndpoints and formatHosts; `maximum := 2` of
   formatHPAMetrics. *)
maximum == 3

maximumMetrics == 2

(* fmt.Sprintf("%s + %d more...", ret, n) *)
MoreString(ret, n) == ret \o " + " \o ToString(n) \o " more..."

(* listWithMoreString(list, more, count, max) *)
listWithMoreString(list, more, count, max) ==
  IF more THEN MoreString(Join(list, ","), count - max)
  ELSE IF Join(list, ",") = "" THEN "<unset>"
  ELSE Join(list, ",")

(* formatEndpoints, the loop over ss.Addresses: st holds the locals list,
   more and count; suffix is "" or ":<port>". *)
RECURSIVE EndpointAddressLoop(_, _, _, _)
EndpointAddressLoop(st, addresses, i, suffix) ==
  IF i > Len(addresses) THEN st
  ELSE IF Len(st.list) = maximum THEN [st EXCEPT !.more = TRUE]
  ELSE EndpointAddressLoop([st EXCEPT !.list = Append(@, addresses[i].IP \o suffix)],
                           addresses, i + 1, suffix)

(* formatEndpoints, the loop over ss.Ports (ports == nil: every port). *)
RECURSIVE EndpointPortLoop(_, _, _)
EndpointPortLoop(st, ss, p) ==
  IF p > Len(ss.Ports) THEN st
  ELSE EndpointPortLoop(
         EndpointAddressLoop([st EXCEPT !.count = @ + Len(ss.Addresses)], ss.Addresses, 1,
                             ":" \o ToString(ss.Ports[p].Port)),
         ss, p + 1)

(* formatEndpoints, the loop over endpoints.Subsets. *)
RECURSIVE EndpointSubsetLoop(_, _, _)
EndpointSubsetLoop(st, subsets, s) ==
  IF s > Len(subsets) THEN st
  ELSE IF Len(subsets[s].Ports) = 0
  THEN EndpointSubsetLoop(
         EndpointAddressLoop([st EXCEPT !.count = @ + Len(subsets[s].Addresses)],
                             subsets[s].Addresses, 1, ""),
         subsets, s + 1)
  ELSE EndpointSubsetLoop(EndpointPortLoop(st, subsets[s], 1), subsets, s + 1)

EndpointsString(st) ==
  IF st.more THEN MoreString(Join(st.list, ","), st.count - maximum)
  ELSE Join(st.list, ",")

(* formatEndpoints(endpoints, nil) *)
formatEndpoints(endpoints) ==
  IF Len(endpoints.Subsets) = 0 THEN "<none>"
  ELSE EndpointsString(
         EndpointSubsetLoop([list |-> <<>>, more |-> FALSE, count |-> 0],
                            endpoints.Subsets, 1))

(* The loop of formatDiscoveryPorts and of formatDiscoveryEndpoints over the
   strings they collect. *)
RECURSIVE DiscoveryLoop(_, _, _)
DiscoveryLoop(st, strings, i) ==
  IF i > Len(strings) THEN st
  ELSE DiscoveryLoop(
         [list |-> IF Len(st.list) < maximum THEN Append(st.list, strings[i]) ELSE st.list,
          more |-> IF Len(st.list) < maximum THEN st.more
                   ELSE IF Len(st.list) = maximum THEN TRUE ELSE st.more,
          count |-> st.count + 1],
         strings, i + 1)

DiscoveryString(st) == listWithMoreString(st.list, st.more, st.count, maximum)

(* formatDiscoveryPorts: portNum of a port. *)
PortNum(port) ==
  IF port.Port # <<>> THEN ToString(port.Port[1])
  ELSE IF port.Name # <<>> THEN port.Name[1]
  ELSE "*"

formatDiscoveryPorts(ports) ==
  DiscoveryString(DiscoveryLoop([list |-> <<>>, more |-> FALSE, count |-> 0],
                                [i \in 1..Len(ports) |-> PortNum(ports[i])], 1))

(* The addresses of the endpoints, in the order the nested loops visit them. *)
RECURSIVE EndpointAddresses(_, _)
EndpointAddresses(endpoints, i) ==
  IF i > Len(endpoints) THEN <<>>
  ELSE endpoints[i].Addresses \o EndpointAddresses(endpoints, i + 1)

formatDiscoveryEndpoints(endpoints) ==
  DiscoveryString(DiscoveryLoop([list |-> <<>>, more |-> FALSE, count |-> 0],
                                EndpointAddresses(endpoints, 1), 1))

(* formatHosts, the loop over rules: st holds the locals list and more. *)
RECURSIVE HostsLoop(_, _, _)
HostsLoop(st, rules, i) ==
  IF i > Len(rules) THEN st
  ELSE HostsLoop(
         [list |-> IF ~(st.more \/ Len(st.list) = maximum) /\ Len(rules[i].Host) # 0
                   THEN Append(st.list, rules[i].Host) ELSE st.list,
          more |-> st.more \/ Len(st.list) = maximum],
         rules, i + 1)

HostsString(st, rules) ==
  IF Len(st.list) = 0 THEN "*"
  ELSE IF st.more THEN MoreString(Join(st.list, ","), Len(rules) - maximum)
  ELSE Join(st.list, ",")

formatHosts(rules) == HostsString(HostsLoop([list |-> <<>>, more |-> FALSE], rules, 1), rules)

(* formatHPAMetrics, the entry appended for specs[i]: of the metric source
   types the Pods case and the default case are modelled; every other case
   appends one entry in the same way. *)
HPAMetric(specs, statuses, i) ==
  IF specs[i].Type = "Pods"
  THEN (IF Len(statuses) >= i /\ statuses[i].Pods # <<>>
        THEN statuses[i].Pods[1].Current ELSE "<unknown>")
       \o "/" \o specs[i].Pods[1].Target
  ELSE "<unknown type>"

HPAMetricsString(list) ==
  IF Len(list) > maximumMetrics
  THEN MoreString(Join(SubSeq(list, 1, maximumMetrics), ", "), Len(list) - maximumMetrics)
  ELSE Join(list, ", ")

formatHPAMetrics(specs, statuses) ==
  IF Len(specs) = 0 THEN "<none>"
  ELSE HPAMetricsString([i \in 1..Len(specs) |-> HPAMetric(specs, statuses, i)])

(***************************************************************************)
(* Row renderers. A renderer's value is the set of results (rows, err) it  *)
(* may return: a singleton unless it enumerates a Go set or map.           *)
(***************************************************************************)
NameCells == {"obj.Name", "pod.Name", "resourceQuota.Name", "name"}

AgeCells == {"translateTimestampSince(obj.CreationTimestamp)",
             "translateTimestampSince(pod.CreationTimestamp)", "createTime", "age"}

(* One cell: the name and the age are computed; any other cell is carried as
   the Go expression that fills it, applied to the item. *)
Cell(expr, item, now) ==
  IF expr \in NameCells THEN item.Name
  ELSE IF expr \in AgeCells THEN translateTimestampSince(item.CreationTimestamp, now)
  ELSE expr \o " of " \o item.Name

TableRow(cells) == [Cells |-> cells, Conditions |-> <<>>]

(* The row a printer builds, with the cell named `special` taking `value`. *)
RowWith(itemFunc, item, now, special, value) ==
  LET exprs == RowCells(itemFunc) IN
  TableRow([i \in 1..Len(exprs) |->
              IF exprs[i] = special THEN value ELSE Cell(exprs[i], item, now)])

(* The row a printer builds, with the cells named in `values` taking the
   values given. *)
RowWithCells(itemFunc, item, now, values) ==
  TableRow([i \in 1..Len(RowCells(itemFunc)) |->
              IF RowCells(itemFunc)[i] \in DOMAIN values
              THEN values[RowCells(itemFunc)[i]]
              ELSE Cell(RowCells(itemFunc)[i], item, now)])

Results(rows, e) == [rows |-> rows, err |-> e]

printFlowSchema(obj, now) ==
  { Results(<<RowWith("printFlowSchema", obj, now, "int64(obj.Spec.MatchingPrecedence)",
                      obj.MatchingPrecedence)>>, <<>>) }

printEndpoints(obj, now) ==
  { Results(<<RowWith("printEndpoints", obj, now, "formatEndpoints(obj, nil)",
                      formatEndpoints(obj))>>, <<>>) }

printEndpointSlice(obj, now) ==
  { Results(<<RowWithCells("printEndpointSlice", obj, now,
                ("formatDiscoveryPorts(obj.Ports)" :> formatDiscoveryPorts(obj.Ports))
                @@ ("formatDiscoveryEndpoints(obj.Endpoints)"
                      :> formatDiscoveryEndpoints(obj.Endpoints)))>>, <<>>) }

printHorizontalPodAutoscaler(obj, now) ==
  { Results(<<RowWith("printHorizontalPodAutoscaler", obj, now, "metrics",
                      formatHPAMetrics(obj.Spec.Metrics, obj.Status.CurrentMetrics))>>,
            <<>>) }

printService(obj, now) ==
  { Results(<<RowWith("printService", obj, now, "externalIP", externalIP)>>, <<>>) :
      externalIP \in getServiceExternalIP(obj, TRUE) }

printIngress(obj, now) ==
  { Results(<<RowWithCells("printIngress", obj, now,
                ("hosts" :> formatHosts(obj.Rules)) @@ ("address" :> address))>>, <<>>) :
      address \in ingressLoadBalancerStatusStringer(obj.Ingress, TRUE) }

printNode(obj, now) ==
  { Results(<<RowWith("printNode", obj, now, "roles",
                      IF Len(Join(r, ",")) = 0 THEN "<none>" ELSE Join(r, ","))>>, <<>>) :
      r \in findNodeRoles(obj) }

printControllerRevision(obj, now) ==
  IF Len(obj.ControllerRef) = 0
  THEN { Results(<<RowWith("printControllerRevision", obj, now, "controllerName", "<none>")>>,
                 <<>>) }
  ELSE LET controllerRef == obj.ControllerRef[1]
           gv == ParseGroupVersion(controllerRef.APIVersion)
       IN IF gv.err # <<>>
          THEN { Results(<<>>, gv.err) }
          ELSE { Results(<<RowWith("printControllerRevision", obj, now, "controllerName",
                                   formatResourceName(
                                     [Group |-> gv.Group, Kind |-> controllerRef.Kind],
                                     controllerRef.Name, TRUE))>>, <<>>) }

(***************************************************************************)
(* Pods. Times are seconds, 0 the zero time; a nil pointer is <<>>.        *)
(***************************************************************************)
NodeUnreachablePodReason == "NodeLost"

(* IsRestartableInitContainer(initContainer), initContainer a pointer. *)
IsRestartableInitContainer(initContainer) ==
  IF initContainer = <<>> \/ initContainer[1].RestartPolicy = <<>> THEN FALSE
  ELSE initContainer[1].RestartPolicy[1] = "Always"

IsPodPhaseTerminal(phase) == phase = "Failed" \/ phase = "Succeeded"

hasPodReadyCondition(conditions) ==
  \E i \in 1..Len(conditions) :
    conditions[i].Type = "Ready" /\ conditions[i].Status = "True"

(* isPodInitializedConditionTrue: decided by the first Initialized condition. *)
isPodInitializedConditionTrue(status) ==
  LET found == { i \in 1..Len(status.Conditions) : status.Conditions[i].Type = "Initialized" }
  IN IF found = {} THEN FALSE
     ELSE status.Conditions[CHOOSE i \in found : \A j \in found : i <= j].Status = "True"

(* metav1.Time.Before *)
Before(t, u) == t < u

(* The initContainers map of printPod: the spec's init container of that
   name (the last one, as later assignments overwrite), or nil. *)
InitContainerNamed(pod, name) ==
  LET found == { i \in 1..Len(pod.Spec.InitContainers) : pod.Spec.InitContainers[i].Name = name }
  IN IF found = {} THEN <<>>
     ELSE << pod.Spec.InitContainers[CHOOSE i \in found : \A j \in found : j <= i] >>

(* printPod, first part: phase, status reason, scheduling gate. *)
PodStartReason(pod) ==
  LET reason == IF pod.Status.Reason # "" THEN pod.Status.Reason ELSE pod.Status.Phase
  IN IF \E i \in 1..Len(pod.Status.Conditions) :
          /\ pod.Status.Conditions[i].Type = "PodScheduled"
          /\ pod.Status.Conditions[i].Reason = "SchedulingGated"
     THEN "SchedulingGated"
     ELSE reason

(* The package-level variables podSuccessConditions and podFailedConditions
   as declared. *)
PackageVars ==
  [podSuccessConditions |->
     << [Type |-> "Completed", Status |-> "True", Reason |-> "Succeeded",
         Message |-> "The pod has completed successfully."] >>,
   podFailedConditions |->
     << [Type |-> "Completed", Status |-> "True", Reason |-> "Failed",
         Message |-> "The pod failed."] >>]

(* row.Conditions: the package-level slice itself, named by its variable. *)
PodRowConditions(pod) ==
  CASE pod.Status.Phase = "Succeeded" -> <<"podSuccessConditions">>
    [] pod.Status.Phase = "Failed" -> <<"podFailedConditions">>
    [] OTHER -> <<>>

(* Faulty variant of PodTotalContainers: every init container of the spec
   is counted. *)
PodTotalContainersAllInit(pod) ==
  Len(pod.Spec.Containers) + Len(pod.Spec.InitContainers)

PodTotalContainers(pod) ==
  Len(pod.Spec.Containers)
    + Cardinality({ i \in 1..Len(pod.Spec.InitContainers) :
                      IsRestartableInitContainer(<<pod.Spec.InitContainers[i]>>) })

(* One pass of the loop over pod.Status.InitContainerStatuses, for the status
   `container` at index i (1-based here, 0-based in the reason it prints):
   the locals of printPod afterwards, and whether the loop goes on
   (`continue`) or ends (`break`). *)
PodInitReason(pod, i, terminated, waiting) ==
  IF terminated # <<>>
  THEN (IF Len(terminated[1].Reason) = 0
        THEN (IF terminated[1].Signal # 0
              THEN "Init:Signal:" \o ToString(terminated[1].Signal)
              ELSE "Init:ExitCode:" \o ToString(terminated[1].ExitCode))
        ELSE "Init:" \o terminated[1].Reason)
  ELSE IF waiting # <<>> /\ Len(waiting[1].Reason) > 0 /\ waiting[1].Reason # "PodInitializing"
  THEN "Init:" \o waiting[1].Reason
  ELSE "Init:" \o ToString(i - 1) \o "/" \o ToString(Len(pod.Spec.InitContainers))

(* Faulty variant of PodInitPass: a started restart-always init container
   that is ready counts as ready even when it exited with code 0. *)
PodInitPassExitedCounts(pod, i, st, container, last, restartable, done) ==
  [continue |-> done,
   st |-> [st EXCEPT
     !.restarts = @ + container.RestartCount,
     !.lastRestartDate =
        IF last # <<>> /\ Before(@, last[1].FinishedAt) THEN last[1].FinishedAt ELSE @,
     !.restartableInitContainerRestarts =
        IF restartable THEN @ + container.RestartCount ELSE @,
     !.lastRestartableInitContainerRestartDate =
        IF restartable /\ last # <<>> /\ Before(@, last[1].FinishedAt)
        THEN last[1].FinishedAt ELSE @,
     !.readyContainers =
        IF /\ restartable /\ container.Started # <<>> /\ container.Started[1]
           /\ container.Ready
        THEN @ + 1 ELSE @,
     !.initializing = ~done,
     !.reason = IF done THEN @
                ELSE PodInitReason(pod, i, container.State.Terminated, container.State.Waiting)]]
PodInitPass(pod, i, st, container, last, restartable, done) ==
  [continue |-> done,
   st |-> [st EXCEPT
     !.restarts = @ + container.RestartCount,
     !.lastRestartDate =
        IF last # <<>> /\ Before(@, last[1].FinishedAt) THEN last[1].FinishedAt ELSE @,
     !.restartableInitContainerRestarts =
        IF restartable THEN @ + container.RestartCount ELSE @,
     !.lastRestartableInitContainerRestartDate =
        IF restartable /\ last # <<>> /\ Before(@, last[1].FinishedAt)
        THEN last[1].FinishedAt ELSE @,
     !.readyContainers =
        IF /\ ~(container.State.Terminated # <<>> /\ container.State.Terminated[1].ExitCode = 0)
           /\ done /\ container.Ready
        THEN @ + 1 ELSE @,
     !.initializing = ~done,
     !.reason = IF done THEN @
                ELSE PodInitReason(pod, i, container.State.Terminated, container.State.Waiting)]]

PodInitDone(container, restartable) ==
  \/ container.State.Terminated # <<>> /\ container.State.Terminated[1].ExitCode = 0
  \/ restartable /\ container.Started # <<>> /\ container.Started[1]

PodInitStatus(pod, i, st, container, restartable) ==
  PodInitPass(pod, i, st, container, container.LastTerminationState.Terminated,
              restartable, PodInitDone(container, restartable))

RECURSIVE PodInitLoop(_, _, _)
(* Faulty variant of PodInitNext: the scan goes on after a blocking status. *)
PodInitNextScanAll(pod, i, pass) == PodInitLoop(pod, i + 1, pass.st)
PodInitNext(pod, i, pass) ==
  IF pass.continue THEN PodInitLoop(pod, i + 1, pass.st) ELSE pass.st

PodInitLoop(pod, i, st) ==
  IF i > Len(pod.Status.InitContainerStatuses) THEN st
  ELSE PodInitNext(pod, i,
         PodInitStatus(pod, i, st, pod.Status.InitContainerStatuses[i],
                       IsRestartableInitContainer(
                         InitContainerNamed(pod, pod.Status.InitContainerStatuses[i].Name))))

(* One pass of the loop over pod.Status.ContainerStatuses. *)
PodContainerPass(st, container, last, terminated, waiting) ==
  [st EXCEPT
     !.restarts = @ + container.RestartCount,
     !.lastRestartDate =
        IF last # <<>> /\ Before(@, last[1].FinishedAt) THEN last[1].FinishedAt ELSE @,
     !.reason =
        IF waiting # <<>> /\ waiting[1].Reason # "" THEN waiting[1].Reason
        ELSE IF terminated # <<>> /\ terminated[1].Reason # "" THEN terminated[1].Reason
        ELSE IF terminated # <<>> /\ terminated[1].Reason = ""
        THEN (IF terminated[1].Signal # 0
              THEN "Signal:" \o ToString(terminated[1].Signal)
              ELSE "ExitCode:" \o ToString(terminated[1].ExitCode))
        ELSE @,
     !.hasRunning =
        IF /\ ~(waiting # <<>> /\ waiting[1].Reason # "") /\ terminated = <<>>
           /\ container.Ready /\ container.State.Running # <<>>
        THEN TRUE ELSE @,
     !.readyContainers =
        IF /\ ~(waiting # <<>> /\ waiting[1].Reason # "") /\ terminated = <<>>
           /\ container.Ready /\ container.State.Running # <<>>
        THEN @ + 1 ELSE @]

PodContainerStatus(st, container) ==
  PodContainerPass(st, container, container.LastTerminationState.Terminated,
                   container.State.Terminated, container.State.Waiting)

(* Faulty variant of PodContainerLoop: the statuses are scanned from the
   first to index i. *)
RECURSIVE PodContainerLoopForward(_, _, _)
PodContainerLoopForward(pod, i, st) ==
  IF i < 1 THEN st
  ELSE PodContainerStatus(PodContainerLoopForward(pod, i - 1, st),
                          pod.Status.ContainerStatuses[i])
(* The loop over pod.Status.ContainerStatuses, from index i down to the first. *)
RECURSIVE PodContainerLoop(_, _, _)
PodContainerLoop(pod, i, st) ==
  IF i < 1 THEN st
  ELSE PodContainerLoop(pod, i - 1, PodContainerStatus(st, pod.Status.ContainerStatuses[i]))

(* The locals of printPod as it starts. *)
PodStart(pod) ==
  [restarts |-> 0, restartableInitContainerRestarts |-> 0,
   readyContainers |-> 0, lastRestartDate |-> 0,
   lastRestartableInitContainerRestartDate |-> 0,
   reason |-> PodStartReason(pod), initializing |-> FALSE, hasRunning |-> FALSE]

(* Faulty variant of PodCompleted: a completed pod with a running container
   keeps the reason "Completed". *)
PodCompletedKept(pod, scanned) == scanned

(* `if reason == "Completed" && hasRunning` *)
PodCompleted(pod, scanned) ==
  IF scanned.reason = "Completed" /\ scanned.hasRunning
  THEN [scanned EXCEPT !.reason = IF hasPodReadyCondition(pod.Status.Conditions)
                                  THEN "Running" ELSE "NotReady"]
  ELSE scanned

(* Faulty variant of PodContainers: the container statuses are scanned
   whether or not an init container blocks. *)
PodContainersUnconditional(pod, init) ==
  PodCompleted(pod,
    PodContainerLoop(pod, Len(pod.Status.ContainerStatuses),
      [init EXCEPT !.restarts = init.restartableInitContainerRestarts,
                   !.lastRestartDate = init.lastRestartableInitContainerRestartDate]))

(* Faulty variant of PodContainers: the restarts of the init phase are kept
   when the container statuses are scanned. *)
PodContainersKeepRestarts(pod, init) ==
  IF ~init.initializing \/ isPodInitializedConditionTrue(pod.Status)
  THEN PodCompleted(pod, PodContainerLoop(pod, Len(pod.Status.ContainerStatuses), init))
  ELSE init
(* `if !initializing || isPodInitializedConditionTrue(&pod.Status)` *)
PodContainers(pod, init) ==
  IF ~init.initializing \/ isPodInitializedConditionTrue(pod.Status)
  THEN PodCompleted(pod,
         PodContainerLoop(pod, Len(pod.Status.ContainerStatuses),
           [init EXCEPT !.restarts = init.restartableInitContainerRestarts,
                        !.lastRestartDate = init.lastRestartableInitContainerRestartDate]))
  ELSE init

(* Faulty variant of PodDeletion: a deleted pod in a terminal phase reports
   "Terminating" too. *)
PodDeletionAnyPhase(pod, main) ==
  IF pod.DeletionTimestamp # 0 /\ pod.Status.Reason = NodeUnreachablePodReason
  THEN [main EXCEPT !.reason = "Unknown"]
  ELSE IF pod.DeletionTimestamp # 0
  THEN [main EXCEPT !.reason = "Terminating"]
  ELSE main
(* The overrides of a pod that is being deleted. *)
PodDeletion(pod, main) ==
  IF pod.DeletionTimestamp # 0 /\ pod.Status.Reason = NodeUnreachablePodReason
  THEN [main EXCEPT !.reason = "Unknown"]
  ELSE IF pod.DeletionTimestamp # 0 /\ ~IsPodPhaseTerminal(pod.Status.Phase)
  THEN [main EXCEPT !.reason = "Terminating"]
  ELSE main

(* The locals of printPod when the cells are built. *)
PodLocals(pod) ==
  PodDeletion(pod, PodContainers(pod, PodInitLoop(pod, 1, PodStart(pod))))

PodReadinessGates(pod) ==
  IF Len(pod.Spec.ReadinessGates) > 0
  THEN ToString(Cardinality(
         { g \in 1..Len(pod.Spec.ReadinessGates) :
             \E c \in 1..Len(pod.Status.Conditions) :
               /\ pod.Status.Conditions[c].Type = pod.Spec.ReadinessGates[g]
               /\ \A d \in 1..(c - 1) :
                    pod.Status.Conditions[d].Type # pod.Spec.ReadinessGates[g]
               /\ pod.Status.Conditions[c].Status = "True" }))
         \o "/" \o ToString(Len(pod.Spec.ReadinessGates))
  ELSE "<none>"

(* Faulty variant of PodRestarts: the age is shown whenever the date is known. *)
PodRestartsWheneverKnown(st, now) ==
  IF st.lastRestartDate # 0
  THEN ToString(st.restarts) \o " (" \o translateTimestampSince(st.lastRestartDate, now)
         \o " ago)"
  ELSE ToString(st.restarts)
PodRestarts(st, now) ==
  IF st.restarts # 0 /\ st.lastRestartDate # 0
  THEN ToString(st.restarts) \o " (" \o translateTimestampSince(st.lastRestartDate, now)
         \o " ago)"
  ELSE ToString(st.restarts)

PodRow(pod, now, st) ==
  [Cells |-> << pod.Name,
                ToString(st.readyContainers) \o "/" \o ToString(PodTotalContainers(pod)),
                st.reason,
                PodRestarts(st, now),
                translateTimestampSince(pod.CreationTimestamp, now),
                IF Len(pod.Status.PodIPs) > 0 /\ pod.Status.PodIPs[1] # ""
                THEN pod.Status.PodIPs[1] ELSE "<none>",
                IF pod.Spec.NodeName = "" THEN "<none>" ELSE pod.Spec.NodeName,
                IF pod.Status.NominatedNodeName = "" THEN "<none>"
                ELSE pod.Status.NominatedNodeName,
                PodReadinessGates(pod) >>,
   Conditions |-> PodRowConditions(pod)]

printPod(pod, now) == { Results(<<PodRow(pod, now, PodLocals(pod))>>, <<>>) }

(* Go's string order: byte-wise, over the characters object names use. *)
ByteOrder == "-./0123456789ABCDEFGHIJKLMNOPQRSTUVWXYZ_abcdefghijklmnopqrstuvwxyz"

Byte(ch) == CHOOSE k \in 1..Len(ByteOrder) : SubSeq(ByteOrder, k, k) = ch

RECURSIVE StringLess(_, _)
StringLess(a, b) ==
  IF Len(b) = 0 THEN FALSE
  ELSE IF Len(a) = 0 THEN TRUE
  ELSE IF SubSeq(a, 1, 1) # SubSeq(b, 1, 1)
  THEN Byte(SubSeq(a, 1, 1)) < Byte(SubSeq(b, 1, 1))
  ELSE StringLess(SubSeq(a, 2, Len(a)), SubSeq(b, 2, Len(b)))

(* Faulty variant of FlowSchemaLess: the names are compared first. *)
FlowSchemaLessByName(a, b) ==
  IF a.Name # b.Name
  THEN StringLess(a.Name, b.Name)
  ELSE a.MatchingPrecedence < b.MatchingPrecedence

(* FlowSchemaSequence.Less *)
FlowSchemaLess(a, b) ==
  IF a.MatchingPrecedence # b.MatchingPrecedence
  THEN a.MatchingPrecedence < b.MatchingPrecedence
  ELSE StringLess(a.Name, b.Name)

(* FlowSchemaSequence.Less(i, j): s holds pointers into list.Items, modelled
   as indices. *)
FlowSchemaSequenceLess(data, i, j) ==
  FlowSchemaLess(data.Items[data.s[i]], data.Items[data.s[j]])

(* Faulty variant of FlowSchemaSequence.Swap: exchanges the objects the two
   pointers point to, as a swap through the pointers would. *)
FlowSchemaSequenceSwapItems(data, i, j) ==
  [data EXCEPT !.Items = [@ EXCEPT ![data.s[i]] = data.Items[data.s[j]],
                                   ![data.s[j]] = data.Items[data.s[i]]]]

(* FlowSchemaSequence.Swap(i, j): the pointers change places, the items they
   point to stay where they are. *)
FlowSchemaSequenceSwap(data, i, j) ==
  [data EXCEPT !.s = [@ EXCEPT ![i] = data.s[j], ![j] = data.s[i]]]

(* SortableResourceNames.Less(i, j) *)
SortableResourceNamesLess(data, i, j) == StringLess(data.list[i], data.list[j])

(* SortableResourceNames.Swap(i, j) *)
SortableResourceNamesSwap(data, i, j) ==
  [data EXCEPT !.list = [@ EXCEPT ![i] = data.list[j], ![j] = data.list[i]]]

(* The methods of sort.Interface, dispatched on the dynamic type of data. *)
SortLen(data) ==
  IF data.type = "FlowSchemaSequence" THEN Len(data.s) ELSE Len(data.list)

Less(data, i, j) ==
  IF data.type = "FlowSchemaSequence" THEN FlowSchemaSequenceLess(data, i, j)
  ELSE SortableResourceNamesLess(data, i, j)

Swap(data, i, j) ==
  IF data.type = "FlowSchemaSequence" THEN FlowSchemaSequenceSwap(data, i, j)
  ELSE SortableResourceNamesSwap(data, i, j)

(* sort.Sort(data): below 13 elements Go's sort is an insertion sort, which
   reaches the data only through Less and Swap. *)
RECURSIVE insertionSortInner(_, _)
insertionSortInner(data, j) ==
  IF j > 1 /\ Less(data, j, j - 1)
  THEN insertionSortInner(Swap(data, j, j - 1), j - 1)
  ELSE data

RECURSIVE insertionSort(_, _)
insertionSort(data, i) ==
  IF i > SortLen(data) THEN data
  ELSE insertionSort(insertionSortInner(data, i), i + 1)

Sort(data) == insertionSort(data, 2)

(* printFlowSchemaList up to sort.Sort(fsSeq): the memory holding list.Items
   and the sorted fsSeq. *)
FlowSchemaSorted(list) ==
  Sort([type |-> "FlowSchemaSequence", Items |-> list.Items,
        s |-> [i \in 1..Len(list.Items) |-> i]])

(* The objects fsSeq[1], fsSeq[2], ... point to. *)
FlowSchemaSeq(data) == [i \in 1..Len(data.s) |-> data.Items[data.s[i]]]

(* printResourceQuota up to sort.Sort(SortableResourceNames(resources)): the
   memory holding the quota and the local slice, for each order the range
   over Status.Hard may take. *)
ResourceQuotaSorted(resourceQuota) ==
  { Sort([type |-> "SortableResourceNames", resourceQuota |-> resourceQuota, list |-> l])
    : l \in UnsortedList(DOMAIN resourceQuota.Status.Hard) }

(* resourceQuota.Status.Used[resource].String(): a missing key gives the zero
   quantity. *)
QuantityString(quantities, resource) ==
  IF resource \in DOMAIN quantities THEN quantities[resource] ELSE "0"

(* strings.TrimSuffix *)
TrimSuffix(s, suffix) ==
  IF Len(s) >= Len(suffix) /\ SubSeq(s, Len(s) - Len(suffix) + 1, Len(s)) = suffix
  THEN SubSeq(s, 1, Len(s) - Len(suffix))
  ELSE s

(* What the loop over resources writes to requestColumn (limits = FALSE) or to
   limitColumn (limits = TRUE). *)
RECURSIVE ResourceQuotaColumn(_, _, _, _)
ResourceQuotaColumn(resourceQuota, resources, i, limits) ==
  IF i > Len(resources) THEN ""
  ELSE (IF HasPrefix(resources[i], "limits.") = limits
        THEN resources[i] \o ": "
             \o QuantityString(resourceQuota.Status.Used, resources[i]) \o "/"
             \o QuantityString(resourceQuota.Status.Hard, resources[i]) \o ", "
        ELSE "")
       \o ResourceQuotaColumn(resourceQuota, resources, i + 1, limits)

ResourceQuotaRow(resourceQuota, resources, now) ==
  TableRow(<< resourceQuota.Name,
              translateTimestampSince(resourceQuota.CreationTimestamp, now),
              TrimSuffix(ResourceQuotaColumn(resourceQuota, resources, 1, FALSE), ", "),
              TrimSuffix(ResourceQuotaColumn(resourceQuota, resources, 1, TRUE), ", ") >>)

printResourceQuota(resourceQuota, now) ==
  { Results(<<ResourceQuotaRow(data.resourceQuota, data.list, now)>>, <<>>)
    : data \in ResourceQuotaSorted(resourceQuota) }

(* hasJobCondition: decided by the first condition of that type. *)
hasJobCondition(conditions, conditionType) ==
  LET found == { i \in 1..Len(conditions) : conditions[i].Type = conditionType }
  IN IF found = {} THEN FALSE
     ELSE conditions[CHOOSE i \in found : \A j \in found : i <= j].Status = "True"

(* Faulty variant of JobStatus: Suspended is tested first. *)
JobStatusSuspendedFirst(obj) ==
  IF hasJobCondition(obj.Status.Conditions, "Suspended") THEN "Suspended"
  ELSE IF hasJobCondition(obj.Status.Conditions, "Complete") THEN "Complete"
  ELSE IF hasJobCondition(obj.Status.Conditions, "Failed") THEN "Failed"
  ELSE IF obj.DeletionTimestamp # 0 THEN "Terminating"
  ELSE IF hasJobCondition(obj.Status.Conditions, "FailureTarget") THEN "FailureTarget"
  ELSE "Running"

(* printJob: the local `status`. *)
JobStatus(obj) ==
  IF hasJobCondition(obj.Status.Conditions, "Complete") THEN "Complete"
  ELSE IF hasJobCondition(obj.Status.Conditions, "Failed") THEN "Failed"
  ELSE IF obj.DeletionTimestamp # 0 THEN "Terminating"
  ELSE IF hasJobCondition(obj.Status.Conditions, "Suspended") THEN "Suspended"
  ELSE IF hasJobCondition(obj.Status.Conditions, "FailureTarget") THEN "FailureTarget"
  ELSE "Running"

printJob(obj, now) ==
  { Results(<<RowWith("printJob", obj, now, "status", JobStatus(obj))>>, <<>>) }

(* Any per-item printer, by name. *)
PrintItem(itemFunc, obj, now) ==
  CASE itemFunc = "printPod" -> printPod(obj, now)
    [] itemFunc = "printService" -> printService(obj, now)
    [] itemFunc = "printIngress" -> printIngress(obj, now)
    [] itemFunc = "printNode" -> printNode(obj, now)
    [] itemFunc = "printControllerRevision" -> printControllerRevision(obj, now)
    [] itemFunc = "printResourceQuota" -> printResourceQuota(obj, now)
    [] itemFunc = "printJob" -> printJob(obj, now)
    [] itemFunc = "printFlowSchema" -> printFlowSchema(obj, now)
    [] itemFunc = "printEndpoints" -> printEndpoints(obj, now)
    [] itemFunc = "printEndpointSlice" -> printEndpointSlice(obj, now)
    [] itemFunc = "printHorizontalPodAutoscaler" -> printHorizontalPodAutoscaler(obj, now)
    [] OTHER -> { Results(<<RowWith(itemFunc, obj, now, "", "")>>, <<>>) }

(* The loop every print<Kind>List runs: the rows of each item appended in turn,
   and `return nil, err` at the first item whose printer fails. *)
RECURSIVE PrintItems(_, _, _, _, _)
PrintItems(itemFunc, items, i, rows, now) ==
  IF i > Len(items) THEN { Results(rows, <<>>) }
  ELSE UNION { IF r.err # <<>>
               THEN { Results(<<>>, r.err) }
               ELSE PrintItems(itemFunc, items, i + 1, rows \o r.rows, now)
               : r \in PrintItem(itemFunc, items[i], now) }

printFlowSchemaList(list, now) ==
  PrintItems("printFlowSchema", FlowSchemaSeq(FlowSchemaSorted(list)), 1, <<>>, now)

(* A registered print function applied to obj (handler.printFunc.Call). *)
Call(printFunc, obj, now) ==
  IF printFunc.Name = "printFlowSchemaList" THEN printFlowSchemaList(obj, now)
  ELSE IF printFunc.Name \in { AddHandlersCalls[i].printFunc.Name : i \in 1..Len(AddHandlersCalls) }
  THEN PrintItems(ItemPrinter(printFunc.Name), obj.Items, 1, <<>>, now)
  ELSE PrintItem(printFunc.Name, obj, now)

(* The argument as the print function leaves it in the caller's memory: the
   two printers that sort are followed through their writes, no other
   printer has an assignment whose target is reachable from its argument. *)
RECURSIVE ResourceQuotasAfter(_, _, _)
ResourceQuotasAfter(items, i, after) ==
  IF i > Len(items) THEN { after }
  ELSE UNION { ResourceQuotasAfter(items, i + 1, Append(after, data.resourceQuota))
               : data \in ResourceQuotaSorted(items[i]) }

After(printFunc, obj) ==
  IF printFunc.Name = "printFlowSchemaList"
  THEN { [obj EXCEPT !.Items = FlowSchemaSorted(obj).Items] }
  ELSE IF printFunc.Name = "printResourceQuotaList"
  THEN { [obj EXCEPT !.Items = items] : items \in ResourceQuotasAfter(obj.Items, 1, <<>>) }
  ELSE { obj }

(* obj after h.GenerateTable(obj) returned. *)
ObjectAfter(h, obj) ==
  IF obj.Type \notin DOMAIN h THEN { obj } ELSE After(h[obj.Type].printFunc, obj)

(***************************************************************************)
(* Table generator.                                                        *)
(***************************************************************************)
(* meta.ListAccessor(obj): the list metadata, or <<>> for the error. *)
ListAccessor(obj) ==
  IF "ListMeta" \in DOMAIN obj THEN <<obj.ListMeta>> ELSE <<>>

(* meta.CommonAccessor(obj): the common metadata, or <<>> for the error. *)
CommonAccessor(obj) ==
  IF "ListMeta" \in DOMAIN obj THEN <<obj.ListMeta>>
  ELSE IF "ObjectMeta" \in DOMAIN obj THEN <<obj.ObjectMeta>>
  ELSE <<>>

(* Faulty variant of Columns: drops only the columns of priority above 0. *)
RECURSIVE ColumnsUpToZero(_, _, _)
ColumnsUpToZero(columnDefinitions, i, columns) ==
  IF i > Len(columnDefinitions) THEN columns
  ELSE IF columnDefinitions[i].Priority > 0
  THEN ColumnsUpToZero(columnDefinitions, i + 1, columns)
  ELSE ColumnsUpToZero(columnDefinitions, i + 1, Append(columns, columnDefinitions[i]))

(* The loop of GenerateTable that keeps the columns of priority 0. *)
RECURSIVE Columns(_, _, _)
Columns(columnDefinitions, i, columns) ==
  IF i > Len(columnDefinitions) THEN columns
  ELSE IF columnDefinitions[i].Priority # 0
  THEN Columns(columnDefinitions, i + 1, columns)
  ELSE Columns(columnDefinitions, i + 1, Append(columns, columnDefinitions[i]))

(* Faulty variant of TableMeta: only the resource version is copied, whatever
   accessor the object has. *)
TableMetaResourceVersionOnly(obj) ==
  IF CommonAccessor(obj) # <<>>
  THEN [ResourceVersion |-> CommonAccessor(obj)[1].ResourceVersion,
        Continue |-> "", RemainingItemCount |-> <<>>]
  ELSE [ResourceVersion |-> "", Continue |-> "", RemainingItemCount |-> <<>>]

(* The metadata GenerateTable copies into the table. *)
TableMeta(obj) ==
  IF ListAccessor(obj) # <<>>
  THEN [ResourceVersion |-> ListAccessor(obj)[1].ResourceVersion,
        Continue |-> ListAccessor(obj)[1].Continue,
        RemainingItemCount |-> ListAccessor(obj)[1].RemainingItemCount]
  ELSE IF CommonAccessor(obj) # <<>>
  THEN [ResourceVersion |-> CommonAccessor(obj)[1].ResourceVersion,
        Continue |-> "", RemainingItemCount |-> <<>>]
  ELSE [ResourceVersion |-> "", Continue |-> "", RemainingItemCount |-> <<>>]

(* Faulty variant of NoHandlerError: the message does not name the type. *)
NoHandlerErrorUnnamed(t) == <<"no table handler registered for this type">>

NoHandlerError(t) == <<"no table handler registered for this type " \o t>>

(* Faulty variant of GenerateTable: the print function's error is wrapped in a
   new error before it is returned. *)
GenerateTableWrappingError(h, obj, now) ==
  LET t == obj.Type IN
  IF t \notin DOMAIN h
  THEN { [table |-> <<>>, err |-> NoHandlerError(t), called |-> <<>>] }
  ELSE LET handler == h[t] IN
       { LET ran == <<[printFunc |-> handler.printFunc.Name, results |-> results]>> IN
         IF results.err # <<>>
         THEN [table |-> <<>>, err |-> <<"unable to print: " \o results.err[1]>>,
               called |-> ran]
         ELSE [table |-> << [ColumnDefinitions |-> Columns(handler.columnDefinitions, 1, <<>>),
                             Rows |-> results.rows,
                             ResourceVersion |-> TableMeta(obj).ResourceVersion,
                             Continue |-> TableMeta(obj).Continue,
                             RemainingItemCount |-> TableMeta(obj).RemainingItemCount] >>,
               err |-> <<>>, called |-> ran]
         : results \in Call(handler.printFunc, obj, now) }

(* h.GenerateTable(obj), the clock reading `now`: the outcomes it may have,
   each the table and error returned and the print function calls made. *)
GenerateTable(h, obj, now) ==
  LET t == obj.Type IN
  IF t \notin DOMAIN h
  THEN { [table |-> <<>>, err |-> NoHandlerError(t), called |-> <<>>] }
  ELSE LET handler == h[t] IN
       { LET ran == <<[printFunc |-> handler.printFunc.Name, results |-> results]>> IN
         IF results.err # <<>>
         THEN [table |-> <<>>, err |-> results.err, called |-> ran]
         ELSE [table |-> << [ColumnDefinitions |-> Columns(handler.columnDefinitions, 1, <<>>),
                             Rows |-> results.rows,
                             ResourceVersion |-> TableMeta(obj).ResourceVersion,
                             Continue |-> TableMeta(obj).Continue,
                             RemainingItemCount |-> TableMeta(obj).RemainingItemCount] >>,
               err |-> <<>>, called |-> ran]
         : results \in Call(handler.printFunc, obj, now) }

(***************************************************************************)
(* Inputs: the objects callers hand to GenerateTable and the arguments     *)
(* they hand to TableHandler.                                              *)
(***************************************************************************)
ListMetas ==
  { [ResourceVersion |-> "", Continue |-> "", RemainingItemCount |-> <<>>],
    [ResourceVersion |-> "41", Continue |-> "next", RemainingItemCount |-> <<3>>] }

FullListMeta == [ResourceVersion |-> "41", Continue |-> "next", RemainingItemCount |-> <<3>>]

GenericItems == { [Name |-> "a", CreationTimestamp |-> 1] }

(* Container statuses. *)
NoState == [Waiting |-> <<>>, Running |-> <<>>, Terminated |-> <<>>]

WaitingState(reason) == [NoState EXCEPT !.Waiting = <<[Reason |-> reason]>>]

RunningState == [NoState EXCEPT !.Running = <<[StartedAt |-> 1]>>]

TerminatedState(exitCode, signal, reason) ==
  [NoState EXCEPT !.Terminated = <<[ExitCode |-> exitCode, Signal |-> signal,
                                    Reason |-> reason, FinishedAt |-> 1]>>]

ContainerStatus(name, state, ready, started, restartCount, last) ==
  [Name |-> name, State |-> state, Ready |-> ready, Started |-> started,
   RestartCount |-> restartCount, LastTerminationState |-> last]

Pod(name, phase, spec, conditions, initContainerStatuses, containerStatuses) ==
  [Name |-> name, CreationTimestamp |-> 1, DeletionTimestamp |-> 0,
   Spec |-> spec,
   Status |-> [Phase |-> phase, Reason |-> "", Conditions |-> conditions,
               InitContainerStatuses |-> initContainerStatuses,
               ContainerStatuses |-> containerStatuses,
               PodIPs |-> <<>>, NominatedNodeName |-> ""]]

PodSpec(containers, initContainers) ==
  [Containers |-> containers, InitContainers |-> initContainers,
   NodeName |-> "", ReadinessGates |-> <<>>]

(* A pod that ran to completion. *)
CompletedPod ==
  Pod("a", "Succeeded", PodSpec(<<[Name |-> "c1"]>>, <<>>), <<>>, <<>>,
      << ContainerStatus("c1", TerminatedState(0, 0, "Completed"), FALSE, <<FALSE>>, 0, NoState) >>)

PodItems == { CompletedPod }

(* Pods of every shape the reason computation of printPod distinguishes. *)
PodPhases == {"Running", "Succeeded"}

(* Status.Reason and DeletionTimestamp: a live pod, a pod being deleted, a
   pod being deleted on a lost node. *)
PodDeletions ==
  { [Reason |-> "", DeletionTimestamp |-> 0],
    [Reason |-> "", DeletionTimestamp |-> 1],
    [Reason |-> NodeUnreachablePodReason, DeletionTimestamp |-> 1] }

PodConditions(gated, initialized, ready) ==
  (IF gated
   THEN <<[Type |-> "PodScheduled", Status |-> "False", Reason |-> "SchedulingGated"]>>
   ELSE <<>>)
  \o (IF initialized THEN <<[Type |-> "Initialized", Status |-> "True", Reason |-> ""]>>
      ELSE <<>>)
  \o (IF ready THEN <<[Type |-> "Ready", Status |-> "True", Reason |-> ""]>> ELSE <<>>)

PodConditionInputs ==
  { PodConditions(gated, initialized, ready) : gated, initialized, ready \in BOOLEAN }

(* spec.initContainers: none, a one-shot initializer, a restart-always one. *)
InitContainerInputs ==
  { <<>>,
    <<[Name |-> "i1", RestartPolicy |-> <<>>]>>,
    <<[Name |-> "i1", RestartPolicy |-> <<"Always">>]>> }

InitContainerStatusInputs(initContainers) ==
  IF initContainers = <<>> THEN { <<>> }
  ELSE { <<>>,
         << ContainerStatus("i1", TerminatedState(0, 0, "Completed"), FALSE, <<FALSE>>, 2, NoState) >>,
         << ContainerStatus("i1", TerminatedState(2, 0, ""), FALSE, <<FALSE>>, 2, NoState) >>,
         << ContainerStatus("i1", TerminatedState(2, 0, ""), FALSE, <<TRUE>>, 2, NoState) >>,
         << ContainerStatus("i1", TerminatedState(2, 9, ""), FALSE, <<FALSE>>, 2, NoState) >>,
         << ContainerStatus("i1", WaitingState("ImagePullBackOff"), FALSE, <<FALSE>>, 2, NoState) >>,
         << ContainerStatus("i1", RunningState, TRUE, <<TRUE>>, 2, NoState) >> }

MainContainerInputs == { <<[Name |-> "c1"]>>, <<[Name |-> "c1"], [Name |-> "c2"]>> }

MainContainerStatuses(name) ==
  { ContainerStatus(name, RunningState, TRUE, <<TRUE>>, 0, NoState),
    ContainerStatus(name, WaitingState("CrashLoopBackOff"), FALSE, <<FALSE>>, 1, NoState),
    ContainerStatus(name, TerminatedState(0, 0, "Completed"), FALSE, <<FALSE>>, 0, NoState),
    ContainerStatus(name, TerminatedState(1, 0, ""), FALSE, <<FALSE>>, 1, NoState) }

MainContainerStatusInputs(containers) ==
  { <<>> } \cup { <<c>> : c \in MainContainerStatuses("c1") }
    \cup (IF Len(containers) < 2 THEN {}
          ELSE { <<c, d>> : c \in MainContainerStatuses("c1"), d \in MainContainerStatuses("c2") })

PodInput(phase, deletion, spec, conditions, initStatuses, statuses) ==
  [Pod("a", phase, spec, conditions, initStatuses, statuses)
     EXCEPT !.DeletionTimestamp = deletion.DeletionTimestamp,
            !.Status.Reason = deletion.Reason]

(* Pods for the scans of printPod.  A state that terminated at `finishedAt`. *)
TerminatedAt(exitCode, signal, reason, finishedAt) ==
  [NoState EXCEPT !.Terminated = <<[ExitCode |-> exitCode, Signal |-> signal,
                                    Reason |-> reason, FinishedAt |-> finishedAt]>>]

(* spec.initContainers of the scanned pods: two init containers, of which
   the first, the second or both restart always. *)
ScanInitContainers ==
  { <<[Name |-> "i1", RestartPolicy |-> <<>>], [Name |-> "i2", RestartPolicy |-> <<"Always">>]>>,
    <<[Name |-> "i1", RestartPolicy |-> <<"Always">>], [Name |-> "i2", RestartPolicy |-> <<>>]>>,
    <<[Name |-> "i1", RestartPolicy |-> <<"Always">>],
      [Name |-> "i2", RestartPolicy |-> <<"Always">>]>> }

(* The statuses an init container can be in; it restarted `restartCount`
   times and last terminated at `finishedAt`. *)
ScanInitStatuses(name, restartCount, finishedAt) ==
  { ContainerStatus(name, state[1], state[2], state[3], restartCount,
                    TerminatedAt(1, 0, "Error", finishedAt)) :
      state \in { <<TerminatedState(0, 0, "Completed"), FALSE, <<FALSE>>>>,
                  <<TerminatedState(0, 0, "Completed"), TRUE, <<TRUE>>>>,
                  <<TerminatedState(2, 0, ""), FALSE, <<FALSE>>>>,
                  <<TerminatedState(2, 9, ""), FALSE, <<FALSE>>>>,
                  <<TerminatedState(1, 0, "Error"), FALSE, <<FALSE>>>>,
                  <<WaitingState("ImagePullBackOff"), FALSE, <<FALSE>>>>,
                  <<WaitingState("PodInitializing"), FALSE, <<>>>>,
                  <<RunningState, TRUE, <<TRUE>>>>,
                  <<RunningState, FALSE, <<TRUE>>>> } }

ScanInitStatusInputs ==
  { <<>> } \cup { <<a>> : a \in ScanInitStatuses("i1", 1, 2) }
    \cup { <<a, b>> : a \in ScanInitStatuses("i1", 1, 2), b \in ScanInitStatuses("i2", 2, 1) }

(* The statuses a main container can be in. *)
ScanMainStatuses(name) ==
  { ContainerStatus(name, RunningState, TRUE, <<TRUE>>, 0, NoState),
    ContainerStatus(name, RunningState, FALSE, <<TRUE>>, 0, TerminatedAt(1, 0, "Error", 1)),
    ContainerStatus(name, WaitingState("CrashLoopBackOff"), FALSE, <<FALSE>>, 1,
                    TerminatedAt(1, 0, "Error", 2)),
    ContainerStatus(name, TerminatedState(0, 0, "Completed"), FALSE, <<FALSE>>, 0, NoState),
    ContainerStatus(name, TerminatedState(1, 0, "Error"), FALSE, <<FALSE>>, 1,
                    TerminatedAt(1, 0, "Error", 1)),
    ContainerStatus(name, TerminatedState(1, 0, ""), FALSE, <<FALSE>>, 3, NoState),
    ContainerStatus(name, TerminatedState(2, 9, ""), FALSE, <<FALSE>>, 0, NoState) }

ContainerName(i) == "c" \o ToString(i)

(* Up to MaxContainers statuses, for the containers c1, c2, ... in order. *)
RECURSIVE ScanMainStatusInputs(_)
ScanMainStatusInputs(n) ==
  IF n = 0 THEN { <<>> }
  ELSE ScanMainStatusInputs(n - 1)
         \cup { Append(l, c) : l \in { m \in ScanMainStatusInputs(n - 1) : Len(m) = n - 1 },
                               c \in ScanMainStatuses(ContainerName(n)) }

ScanMainContainers == [i \in 1..MaxContainers |-> [Name |-> ContainerName(i)]]

ServiceItems ==
  { [Name |-> "web", CreationTimestamp |-> 0, Type |-> "ClusterIP",
     Ingress |-> <<>>, ExternalIPs |-> <<>>],
    [Name |-> "lb", CreationTimestamp |-> 1, Type |-> "LoadBalancer",
     Ingress |-> << [IP |-> "10.0.0.1", Hostname |-> ""],
                    [IP |-> "", Hostname |-> "lb.example.com"] >>,
     ExternalIPs |-> <<>>] }

IngressItems ==
  { [Name |-> "one", CreationTimestamp |-> 1, Rules |-> <<>>,
     Ingress |-> << [IP |-> "10.0.0.1", Hostname |-> ""] >>],
    [Name |-> "two", CreationTimestamp |-> 1, Rules |-> <<[Host |-> "example.com"]>>,
     Ingress |-> << [IP |-> "10.0.0.1", Hostname |-> ""],
                    [IP |-> "10.0.0.2", Hostname |-> ""] >>] }

(* Ingress rules: up to MaxRules of them, each with a host of its own or
   with none. *)
IngressRuleInputs ==
  UNION { { [i \in 1..n |-> [Host |-> IF i \in hostless THEN "" ELSE "h" \o ToString(i)]]
            : hostless \in SUBSET (1..n) } : n \in 0..MaxRules }

IngressInput(rules) ==
  [Name |-> "i", CreationTimestamp |-> 1, Rules |-> rules, Ingress |-> <<>>]

(* Endpoints: up to MaxSubsets subsets, each with up to MaxAddresses
   addresses and no, one or two ports. *)
SubsetInputs ==
  { [Addresses |-> [i \in 1..n |-> [IP |-> "10.0.0." \o ToString(i)]], Ports |-> ports]
    : n \in 0..MaxAddresses,
      ports \in { <<>>, <<[Name |-> "http", Port |-> 80]>>,
                  <<[Name |-> "http", Port |-> 80], [Name |-> "https", Port |-> 443]>> } }

EndpointsInputs == UNION { [1..n -> SubsetInputs] : n \in 0..MaxSubsets }

EndpointsInput(subsets) == [Name |-> "e", CreationTimestamp |-> 1, Subsets |-> subsets]

EndpointsItems == { EndpointsInput(<<>>) }

(* EndpointSlice: up to MaxRules ports, each with a number, only a name, or
   neither; up to MaxSubsets endpoints of up to MaxAddresses addresses. *)
DiscoveryPortInputs ==
  UNION { { [i \in 1..n |->
               [Port |-> IF kind[i] = "port" THEN <<8000 + i>> ELSE <<>>,
                Name |-> IF kind[i] = "none" THEN <<>> ELSE <<"p" \o ToString(i)>>]]
            : kind \in [1..n -> {"port", "name", "none"}] } : n \in 0..MaxRules }

DiscoveryEndpointInputs ==
  UNION { { [e \in 1..n |->
               [Addresses |-> [i \in 1..size[e] |->
                                 "10.0." \o ToString(e) \o "." \o ToString(i)]]]
            : size \in [1..n -> 0..MaxAddresses] } : n \in 0..MaxSubsets }

EndpointSliceInput(ports, endpoints) ==
  [Name |-> "s", CreationTimestamp |-> 1, Ports |-> ports, Endpoints |-> endpoints]

EndpointSliceItems == { EndpointSliceInput(<<>>, <<>>) }

(* HorizontalPodAutoscaler: up to MaxRules metric specs, of type Pods or of
   an unknown type, with the current metrics reported or not. *)
MetricSpecInputs ==
  UNION { { [i \in 1..n |->
               [Type |-> IF i \in pods THEN "Pods" ELSE "Unknown",
                Pods |-> IF i \in pods THEN <<[Target |-> ToString(10 * i)]>> ELSE <<>>]]
            : pods \in SUBSET (1..n) } : n \in 0..MaxRules }

MetricStatusInputs(specs) ==
  { <<>>,
    [i \in 1..Len(specs) |->
       [Pods |-> IF specs[i].Type = "Pods" THEN <<[Current |-> ToString(i)]>> ELSE <<>>]] }

HPAInput(specs, statuses) ==
  [Name |-> "h", CreationTimestamp |-> 1,
   Spec |-> [Metrics |-> specs], Status |-> [CurrentMetrics |-> statuses]]

HPAItems == { HPAInput(<<>>, <<>>) }

(* FlowSchema lists: up to MaxSchemas schemas in any order, names and
   matching precedences repeated or not. *)
FlowSchemaInputs ==
  UNION { [1..n -> [Name : {"a", "b"}, CreationTimestamp : {1},
                    MatchingPrecedence : {50, 100}]] : n \in 0..MaxSchemas }

NodeItems ==
  { [Name |-> "n0", CreationTimestamp |-> 1, Labels |-> [k \in {} |-> ""]],
    [Name |-> "n1", CreationTimestamp |-> 1,
     Labels |-> [k \in {"node-role.kubernetes.io/control-plane", "kubernetes.io/role"} |->
                   IF k = "kubernetes.io/role" THEN "worker" ELSE ""]] }

ControllerRevisionItems ==
  { [Name |-> "r1", CreationTimestamp |-> 1,
     ControllerRef |-> << [APIVersion |-> "apps/v1", Kind |-> "StatefulSet", Name |-> "db"] >>],
    [Name |-> "r2", CreationTimestamp |-> 1,
     ControllerRef |-> << [APIVersion |-> "a/b/c", Kind |-> "DaemonSet", Name |-> "ds"] >>] }

(* Jobs: the conditions in any order, types repeated or not, and the job
   being deleted or not. *)
JobConditionInputs ==
  UNION { [1..n -> [Type : {"Complete", "Failed", "Suspended", "FailureTarget"},
                    Status : {"True", "False"}]] : n \in 0..MaxConditions }

JobInput(conditions, deletionTimestamp) ==
  [Name |-> "j", CreationTimestamp |-> 1, DeletionTimestamp |-> deletionTimestamp,
   Status |-> [Conditions |-> conditions]]

JobItems == { JobInput(<<[Type |-> "Complete", Status |-> "True"]>>, 0) }

ResourceQuotaItems ==
  { [Name |-> "q", CreationTimestamp |-> 1,
     Status |-> [Hard |-> ("pods" :> "10") @@ ("limits.cpu" :> "4"),
                 Used |-> ("pods" :> "3")]] }

FlowSchemaItems ==
  { [Name |-> "b", CreationTimestamp |-> 1, MatchingPrecedence |-> 100],
    [Name |-> "a", CreationTimestamp |-> 1, MatchingPrecedence |-> 50] }

ItemsOf(listType) ==
  CASE listType = "*corev1.PodList" -> PodItems
    [] listType = "*corev1.ServiceList" -> ServiceItems
    [] listType = "*networkingv1.IngressList" -> IngressItems
    [] listType = "*corev1.NodeList" -> NodeItems
    [] listType = "*appsv1.ControllerRevisionList" -> ControllerRevisionItems
    [] listType = "*flowcontrolv1.FlowSchemaList" -> FlowSchemaItems
    [] listType = "*corev1.ResourceQuotaList" -> ResourceQuotaItems
    [] listType = "*batchv1.JobList" -> JobItems
    [] listType = "*corev1.EndpointsList" -> EndpointsItems
    [] listType = "*discoveryv1.EndpointSliceList" -> EndpointSliceItems
    [] listType = "*autoscalingv2.HorizontalPodAutoscalerList" -> HPAItems
    [] OTHER -> GenericItems

Lists(items) == UNION { [1..n -> items] : n \in 0..MaxItems }

ListObjects(listTypes, metas) ==
  UNION { { [Type |-> t, ListMeta |-> m, Items |-> items] :
              m \in metas, items \in Lists(ItemsOf(t)) } : t \in listTypes }

RegisteredListTypes == { AddHandlersCalls[i].printFunc.In[1] : i \in 1..Len(AddHandlersCalls) }

(* List types of `mapping` that AddHandlers registers no handler for. *)
UnregisteredListTypes == {"*rbacv1.RoleList", "*batchv1beta1.CronJobList"}

PodObjects ==
  { [Type |-> "*corev1.Pod", ObjectMeta |-> [ResourceVersion |-> rv],
     Name |-> CompletedPod.Name, CreationTimestamp |-> CompletedPod.CreationTimestamp,
     DeletionTimestamp |-> CompletedPod.DeletionTimestamp,
     Spec |-> CompletedPod.Spec, Status |-> CompletedPod.Status] : rv \in {"", "7"} }

(* A nil object, and a runtime.Object that carries no metadata. *)
BareObjects == { [Type |-> "<nil>"], [Type |-> "*runtime.Unknown"] }

(* GenerateOptions values a caller may want; GenerateTable has no parameter
   that takes one. *)
GenerateOptions == { [NoHeaders |-> FALSE, Wide |-> wide] : wide \in BOOLEAN }

podColumnDefinitions == AddHandlersCalls[1].columnDefinitions

customColumnDefinitions ==
  << Col("Hidden", -1), Col("Name", 0), Col("Wide", 2), Col("Age", 0) >>

ColumnInputs == { podColumnDefinitions, customColumnDefinitions }

PrintFuncInputs ==
  { ListFunc("printPodList", "*corev1.PodList"),
    FuncValue("printPod", <<"*corev1.Pod">>, <<TableRowSliceType, ErrorType>>),
    NonFuncValue("notAFunction"),
    FuncValue("withOptions", <<"*corev1.PodList", "GenerateOptions">>,
              <<TableRowSliceType, ErrorType>>),
    FuncValue("threeParams", <<"*corev1.PodList", "GenerateOptions", "int">>,
              <<TableRowSliceType, ErrorType>>),
    FuncValue("oneResult", <<"*corev1.PodList">>, <<TableRowSliceType>>),
    FuncValue("stringRows", <<"*corev1.PodList">>, <<"[]string", ErrorType>>),
    FuncValue("boolError", <<"*corev1.PodList">>, <<TableRowSliceType, "bool">>) }

(***************************************************************************)
(* The server: kinds, their list objects, and ListResources.              *)
(***************************************************************************)
(* The package-level map `mapping`: for each kind, the type of the list
   object it holds a pointer to. *)
mapping ==
     "Pod" :> "*corev1.PodList" @@
     "PodDisruptionBudget" :> "*policyv1.PodDisruptionBudgetList" @@
     "ReplicaSet" :> "*appsv1.ReplicaSetList" @@
     "DaemonSet" :> "*appsv1.DaemonSetList" @@
     "Deployment" :> "*appsv1.DeploymentList" @@
     "StatefulSet" :> "*appsv1.StatefulSetList" @@
     "Job" :> "*batchv1.JobList" @@
     "CronJob" :> "*batchv1beta1.CronJobList" @@
     "Ingress" :> "*networkingv1.IngressList" @@
     "Service" :> "*corev1.ServiceList" @@
     "Endpoints" :> "*corev1.EndpointsList" @@
     "Node" :> "*corev1.NodeList" @@
     "Namespace" :> "*corev1.NamespaceList" @@
     "Secret" :> "*corev1.SecretList" @@
     "ConfigMap" :> "*corev1.ConfigMapList" @@
     "PersistentVolume" :> "*corev1.PersistentVolumeList" @@
     "PersistentVolumeClaim" :> "*corev1.PersistentVolumeClaimList" @@
     "StorageClass" :> "*storagev1.StorageClassList" @@
     "PriorityClass" :> "*schedulingv1.PriorityClassList" @@
     "ServiceAccount" :> "*corev1.ServiceAccountList" @@
     "Role" :> "*rbacv1.RoleList" @@
     "ClusterRole" :> "*rbacv1.ClusterRoleList" @@
     "RoleBinding" :> "*rbacv1.RoleBindingList" @@
     "ClusterRoleBinding" :> "*rbacv1.ClusterRoleBindingList" @@
     "HorizontalPodAutoscaler" :> "*autoscalingv2.HorizontalPodAutoscalerList" @@
     "PriorityLevelConfiguration" :> "*flowcontrolv1.PriorityLevelConfigurationList" @@
     "CSR" :> "*certificatesv1.CertificateSigningRequestList" @@
     "Lease" :> "*coordinationv1.LeaseList" @@
     "EndpointSlice" :> "*discoveryv1.EndpointSliceList" @@
     "LimitRange" :> "*corev1.LimitRangeList" @@
     "ResourceQuota" :> "*corev1.ResourceQuotaList" @@
     "Event" :> "*corev1.EventList" @@
     "MutatingWebhookConfiguration" :> "*admissionregistrationv1.MutatingWebhookConfigurationList" @@
     "ValidatingWebhookConfiguration" :> "*admissionregistrationv1.ValidatingWebhookConfigurationList" @@
     "ResourceClaim" :> "*resourcev1beta1.ResourceClaimList" @@
     "ResourceSlice" :> "*resourcev1beta1.ResourceSliceList"

(* IsSupportedKind(kind): the object of `mapping` (named by its kind, as
   every call returns the same pointer) and true, or nil and false. *)
IsSupportedKind(kind) ==
  IF kind \notin DOMAIN mapping THEN [obj |-> <<>>, ok |-> FALSE]
  ELSE [obj |-> <<kind>>, ok |-> TRUE]

(* The server with n requests about to be handled: `objects` is what the
   list objects of `mapping` hold (empty lists as declared), and each
   request is at a statement of the ListResources handler. *)
NewServer(n) ==
  [objects |-> [kind \in DOMAIN mapping |->
                  [Type |-> mapping[kind],
                   ListMeta |-> [ResourceVersion |-> "", Continue |-> "",
                                 RemainingItemCount |-> <<>>],
                   Items |-> <<>>]],
   requests |-> [r \in 1..n |-> [pc |-> "List"]]]

(* The generic listing of a kind that is not supported. *)
GenericTable(items, now) ==
  [ColumnDefinitions |-> << Col("Name", 0), Col("Namespace", 0), Col("Age", 0) >>,
   Rows |-> [i \in 1..Len(items) |->
               [Cells |-> << items[i].Name,
                             IF "Namespace" \in DOMAIN items[i] THEN items[i].Namespace ELSE "",
                             now - items[i].CreationTimestamp >>,
                Conditions |-> <<>>]],
   ResourceVersion |-> "", Continue |-> "", RemainingItemCount |-> <<>>]

(***************************************************************************)
(* The signal handler (package signals).                                   *)
(***************************************************************************)
(* The process after SetupSignalHandler returned: c is the number of signals
   held by the channel `c` (capacity 1), pc the statement the goroutine is
   at, ctx whether the returned context is canceled, exit the exit code once
   os.Exit ran (<<>> while the process runs).  sent and caught count the
   signals delivered to the process and those the goroutine received. *)
SetupSignalHandler ==
  [c |-> 0, pc |-> "receive", ctx |-> "active", exit |-> <<>>, sent |-> 0, caught |-> 0]

(***************************************************************************)
(* Actions.                                                                *)
(***************************************************************************)
Init ==
  /\ handlerMap = NewTableGenerator
  /\ call = [op |-> "NewTableGenerator"]
  /\ table = <<>>
  /\ err = <<>>
  /\ called = <<>>
  /\ packageVars = PackageVars
  /\ signals = SetupSignalHandler
  /\ server = NewServer(0)

TableHandlerCall ==
  \E columnDefinitions \in ColumnInputs, printFunc \in PrintFuncInputs :
    LET r == TableHandler(handlerMap, columnDefinitions, printFunc) IN
    /\ handlerMap' = r.handlerMap
    /\ call' = [op |-> "TableHandler", columnDefinitions |-> columnDefinitions,
                printFunc |-> printFunc]
    /\ err' = r.err
    /\ table' = <<>>
    /\ called' = <<>>
    /\ UNCHANGED <<packageVars, signals, server>>

AddHandlersCall ==
  /\ handlerMap' = AddHandlers(handlerMap)
  /\ call' = [op |-> "AddHandlers"]
  /\ err' = <<>>
  /\ table' = <<>>
  /\ called' = <<>>
  /\ UNCHANGED <<packageVars, signals, server>>

GenerateTableCall(objects, wanted) ==
  \E obj \in objects, options \in wanted, now \in 1..MaxNow :
    \E out \in GenerateTable(handlerMap, obj, now), after \in ObjectAfter(handlerMap, obj) :
      /\ call' = [op |-> "GenerateTable", obj |-> obj, options |-> options, now |-> now,
                  after |-> after]
      /\ table' = out.table
      /\ err' = out.err
      /\ called' = out.called
      /\ UNCHANGED <<handlerMap, packageVars, signals, server>>

(* The conditions a caller reads in a row of its table. *)
RowConditions(row) ==
  IF row.Conditions = <<>> THEN <<>> ELSE packageVars[row.Conditions[1]]

(* A caller writes `table.Rows[i].Conditions[0].Reason = "Edited"` in the
   table it received: the slice is the package-level one, so the write lands
   in its array. *)
CallerEditsRowCondition ==
  /\ call.op = "GenerateTable"
  /\ table # <<>>
  /\ \E i \in 1..Len(table[1].Rows) :
       /\ table[1].Rows[i].Conditions # <<>>
       /\ packageVars' = [packageVars EXCEPT ![table[1].Rows[i].Conditions[1]][1].Reason = "Edited"]
       /\ call' = [op |-> "CallerEditsRowCondition", row |-> i]
  /\ UNCHANGED <<handlerMap, table, err, called, signals, server>>

(* The generator through its whole life: registrations and generations in any
   order, on the objects that exercise the registry. *)
RegistryObjects ==
  ListObjects({"*corev1.PodList"}, ListMetas) \cup PodObjects \cup BareObjects

GenerateTableRegistry == GenerateTableCall(RegistryObjects, GenerateOptions)

Next ==
  TableHandlerCall \/ AddHandlersCall \/ GenerateTableRegistry \/ CallerEditsRowCondition

Spec == Init /\ [][Next]_vars

(* The generator as the server builds and uses it (NewServer): AddHandlers on a
   new generator, then only GenerateTable, on lists of every kind. *)
InitServer ==
  /\ handlerMap = AddHandlers(NewTableGenerator)
  /\ call = [op |-> "AddHandlers"]
  /\ table = <<>>
  /\ err = <<>>
  /\ called = <<>>
  /\ packageVars = PackageVars
  /\ signals = SetupSignalHandler
  /\ server = NewServer(0)

ServerObjects ==
  ListObjects(RegisteredListTypes \cup UnregisteredListTypes, {FullListMeta})

(* ListResources calls generator.GenerateTable(obj): no options are involved. *)
GenerateTableServer ==
  GenerateTableCall(ServerObjects, {[NoHeaders |-> FALSE, Wide |-> FALSE]})

NextServer == GenerateTableServer

SpecServer == InitServer /\ [][NextServer]_vars

(* printPod as a function of the pod: the input is a list of one pod, drawn
   from the pod inputs, and the one step renders it through a generator holding
   the pod handler. *)
InitPod ==
  /\ handlerMap = TableHandler(NewTableGenerator, podColumnDefinitions,
                               ListFunc("printPodList", "*corev1.PodList")).handlerMap
  /\ \E phase \in PodPhases, deletion \in PodDeletions, conditions \in PodConditionInputs,
        containers \in MainContainerInputs, initContainers \in InitContainerInputs :
       \E initStatuses \in InitContainerStatusInputs(initContainers),
          statuses \in MainContainerStatusInputs(containers) :
         call = [op |-> "input",
                 obj |-> [Type |-> "*corev1.PodList", ListMeta |-> FullListMeta,
                          Items |-> << PodInput(phase, deletion,
                                                PodSpec(containers, initContainers),
                                                conditions, initStatuses, statuses) >>]]
  /\ table = <<>>
  /\ err = <<>>
  /\ called = <<>>
  /\ packageVars = PackageVars
  /\ signals = SetupSignalHandler
  /\ server = NewServer(0)

GenerateTableInput ==
  /\ call.op = "input"
  /\ GenerateTableCall({call.obj}, {[NoHeaders |-> FALSE, Wide |-> FALSE]})

NextInput == GenerateTableInput

SpecPod == InitPod /\ [][NextInput]_vars

(* printPod as a function of the pod, on the pods that exercise its scans:
   pods with two init containers in every combination of statuses, and pods
   with up to MaxContainers main container statuses in every combination,
   in every phase, deleted or not. *)
InitPodScan ==
  /\ handlerMap = TableHandler(NewTableGenerator, podColumnDefinitions,
                               ListFunc("printPodList", "*corev1.PodList")).handlerMap
  /\ \/ \E phase \in {"Pending", "Running"}, deletion \in PodDeletions,
           initialized \in BOOLEAN, initContainers \in ScanInitContainers,
           initStatuses \in ScanInitStatusInputs :
          \E statuses \in { <<>>,
                            << ContainerStatus("c1", RunningState, TRUE, <<TRUE>>, 0, NoState) >>,
                            << ContainerStatus("c1", WaitingState("CrashLoopBackOff"), FALSE,
                                               <<FALSE>>, 4, TerminatedAt(1, 0, "Error", 1)),
                               ContainerStatus("c2", RunningState, TRUE, <<TRUE>>, 0, NoState) >> } :
            call = [op |-> "input",
                    obj |-> [Type |-> "*corev1.PodList", ListMeta |-> FullListMeta,
                             Items |-> << PodInput(phase, deletion,
                                            PodSpec(<<[Name |-> "c1"], [Name |-> "c2"]>>,
                                                    initContainers),
                                            PodConditions(FALSE, initialized, FALSE),
                                            initStatuses, statuses) >>]]
     \/ \E phase \in {"Running", "Succeeded", "Failed"}, deletion \in PodDeletions,
           ready \in BOOLEAN, sidecar \in BOOLEAN,
           statuses \in ScanMainStatusInputs(MaxContainers) :
          call = [op |-> "input",
                  obj |-> [Type |-> "*corev1.PodList", ListMeta |-> FullListMeta,
                           Items |-> << PodInput(phase, deletion,
                                          PodSpec(ScanMainContainers,
                                            IF sidecar
                                            THEN <<[Name |-> "i1", RestartPolicy |-> <<"Always">>]>>
                                            ELSE <<>>),
                                          PodConditions(FALSE, TRUE, ready),
                                          IF sidecar
                                          THEN << ContainerStatus("i1", RunningState, TRUE, <<TRUE>>,
                                                    1, TerminatedAt(1, 0, "Error", 1)) >>
                                          ELSE <<>>,
                                          statuses) >>]]
  /\ table = <<>>
  /\ err = <<>>
  /\ called = <<>>
  /\ packageVars = PackageVars
  /\ signals = SetupSignalHandler
  /\ server = NewServer(0)

SpecPodScan == InitPodScan /\ [][NextInput]_vars

(* The printers whose cells are computed from the item alone, as functions
   of the item: the input is a list of one item on the generator AddHandlers
   populated, and the one step renders it. *)
ItemInput(listType, item) ==
  [op |-> "input",
   obj |-> [Type |-> listType, ListMeta |-> FullListMeta, Items |-> <<item>>]]

InitItem ==
  /\ handlerMap = AddHandlers(NewTableGenerator)
  /\ \/ \E conditions \in JobConditionInputs, deletionTimestamp \in 0..1 :
          call = ItemInput("*batchv1.JobList", JobInput(conditions, deletionTimestamp))
     \/ \E rules \in IngressRuleInputs :
          call = ItemInput("*networkingv1.IngressList", IngressInput(rules))
     \/ \E subsets \in EndpointsInputs :
          call = ItemInput("*corev1.EndpointsList", EndpointsInput(subsets))
     \/ \E ports \in DiscoveryPortInputs :
          call = ItemInput("*discoveryv1.EndpointSliceList", EndpointSliceInput(ports, <<>>))
     \/ \E endpoints \in DiscoveryEndpointInputs :
          call = ItemInput("*discoveryv1.EndpointSliceList",
                           EndpointSliceInput(<<>>, endpoints))
     \/ \E schemas \in FlowSchemaInputs :
          call = [op |-> "input",
                  obj |-> [Type |-> "*flowcontrolv1.FlowSchemaList",
                           ListMeta |-> FullListMeta, Items |-> schemas]]
     \/ \E specs \in MetricSpecInputs :
          \E statuses \in MetricStatusInputs(specs) :
            call = ItemInput("*autoscalingv2.HorizontalPodAutoscalerList",
                             HPAInput(specs, statuses))
  /\ table = <<>>
  /\ err = <<>>
  /\ called = <<>>
  /\ packageVars = PackageVars
  /\ signals = SetupSignalHandler
  /\ server = NewServer(0)

SpecItem == InitItem /\ [][NextInput]_vars

(* The server process with the signal handler installed: the generator serves
   requests while the process runs, signals arrive, and the goroutine started
   by SetupSignalHandler goes through its statements. *)
InitSignals ==
  /\ handlerMap = AddHandlers(NewTableGenerator)
  /\ call = [op |-> "SetupSignalHandler"]
  /\ table = <<>>
  /\ err = <<>>
  /\ called = <<>>
  /\ packageVars = PackageVars
  /\ signals = SetupSignalHandler
  /\ server = NewServer(0)

(* signal.Notify(c, SIGINT, SIGTERM): a signal delivered to the running
   process is sent to c without blocking, and dropped when c is full. *)
Notify ==
  /\ signals.exit = <<>>
  /\ signals.sent < MaxSignals
  /\ \E sig \in {"SIGINT", "SIGTERM"} :
       call' = [op |-> "Notify", sig |-> sig]
  /\ signals' = [signals EXCEPT !.sent = @ + 1,
                                !.c = IF @ < 1 THEN @ + 1 ELSE @]
  /\ UNCHANGED <<handlerMap, table, err, called, packageVars, server>>

(* `<-c`: the goroutine takes a signal from the channel. *)
Receive ==
  /\ signals.exit = <<>>
  /\ signals.pc = "receive"
  /\ signals.c > 0
  /\ signals' = [signals EXCEPT !.c = @ - 1, !.caught = @ + 1, !.pc = "Fprintln"]
  /\ call' = [op |-> "Receive"]
  /\ UNCHANGED <<handlerMap, table, err, called, packageVars, server>>

(* fmt.Fprintln(os.Stdout, "Received terminating signal, shutting down...") *)
Fprintln ==
  /\ signals.exit = <<>>
  /\ signals.pc = "Fprintln"
  /\ signals' = [signals EXCEPT !.pc = "cancel"]
  /\ call' = [op |-> "Fprintln"]
  /\ UNCHANGED <<handlerMap, table, err, called, packageVars, server>>

(* cancel(): the returned context is canceled. *)
Cancel ==
  /\ signals.exit = <<>>
  /\ signals.pc = "cancel"
  /\ signals' = [signals EXCEPT !.ctx = "canceled", !.pc = "Exit"]
  /\ call' = [op |-> "cancel"]
  /\ UNCHANGED <<handlerMap, table, err, called, packageVars, server>>

(* os.Exit(1): the process terminates. *)
Exit ==
  /\ signals.exit = <<>>
  /\ signals.pc = "Exit"
  /\ signals' = [signals EXCEPT !.exit = <<1>>, !.pc = "exited"]
  /\ call' = [op |-> "Exit"]
  /\ UNCHANGED <<handlerMap, table, err, called, packageVars, server>>

(* The running process serves a request. *)
SignalObjects == ListObjects({"*corev1.PodList", "*corev1.NodeList"}, {FullListMeta})

GenerateTableRunning ==
  /\ signals.exit = <<>>
  /\ GenerateTableCall(SignalObjects, {[NoHeaders |-> FALSE, Wide |-> FALSE]})

NextSignals ==
  Notify \/ Receive \/ Fprintln \/ Cancel \/ Exit \/ GenerateTableRunning

SpecSignals == InitSignals /\ [][NextSignals]_vars

(* The items the cluster may return for a kind: up to MaxFetched of them. *)
FetchedItems(kind) ==
  UNION { [1..n -> IF kind \in DOMAIN mapping THEN ItemsOf(mapping[kind]) ELSE GenericItems]
          : n \in 0..MaxFetched }

(* ListResources, up to the list call: request r asks for a kind and the
   dynamic client returns its items. *)
List(r, kinds) ==
  /\ server.requests[r].pc = "List"
  /\ \E kind \in kinds :
       \E items \in FetchedItems(kind) :
         server' = [server EXCEPT !.requests[r] =
                      [pc |-> "IsSupportedKind", kind |-> kind, items |-> items]]
  /\ UNCHANGED <<handlerMap, call, table, err, called, packageVars, signals>>

(* IsSupportedKind returned an object: FromUnstructured writes the items
   into it. *)
FromUnstructured(r) ==
  /\ server.requests[r].pc = "IsSupportedKind"
  /\ IsSupportedKind(server.requests[r].kind).ok
  /\ server' = [server EXCEPT
       !.objects[IsSupportedKind(server.requests[r].kind).obj[1]] =
          [@ EXCEPT !.ListMeta = FullListMeta, !.Items = server.requests[r].items],
       !.requests[r].pc = "GenerateTable"]
  /\ UNCHANGED <<handlerMap, call, table, err, called, packageVars, signals>>

(* s.generator.GenerateTable(obj) on what the object holds now; the error, if
   any, is the handler's result. *)
GenerateTableSupported(r) ==
  /\ server.requests[r].pc = "GenerateTable"
  /\ \E now \in 1..MaxNow :
       \E out \in GenerateTable(handlerMap,
                    server.objects[IsSupportedKind(server.requests[r].kind).obj[1]], now) :
         server' = [server EXCEPT !.requests[r] =
                      [pc |-> "return", kind |-> @.kind, items |-> @.items,
                       table |-> out.table, err |-> out.err, called |-> out.called]]
  /\ UNCHANGED <<handlerMap, call, table, err, called, packageVars, signals>>

(* IsSupportedKind returned false: the Name/Namespace/Age listing. *)
GenericListing(r) ==
  /\ server.requests[r].pc = "IsSupportedKind"
  /\ ~IsSupportedKind(server.requests[r].kind).ok
  /\ \E now \in 1..MaxNow :
       server' = [server EXCEPT !.requests[r] =
                    [pc |-> "return", kind |-> @.kind, items |-> @.items,
                     table |-> <<GenericTable(@.items, now)>>, err |-> <<>>,
                     called |-> <<>>]]
  /\ UNCHANGED <<handlerMap, call, table, err, called, packageVars, signals>>

ListResources(r, kinds) ==
  List(r, kinds) \/ FromUnstructured(r) \/ GenerateTableSupported(r) \/ GenericListing(r)

(* One request, for any kind of `mapping` or for a kind it does not hold. *)
InitList ==
  /\ handlerMap = AddHandlers(NewTableGenerator)
  /\ call = [op |-> "AddHandlers"]
  /\ table = <<>>
  /\ err = <<>>
  /\ called = <<>>
  /\ packageVars = PackageVars
  /\ signals = SetupSignalHandler
  /\ server = NewServer(1)

NextList == ListResources(1, DOMAIN mapping \cup {"Widget"})

SpecList == InitList /\ [][NextList]_vars

(* Two requests handled concurrently, each by its own goroutine: the steps
   of the two interleave in any order. *)
InitConcurrent ==
  /\ handlerMap = AddHandlers(NewTableGenerator)
  /\ call = [op |-> "AddHandlers"]
  /\ table = <<>>
  /\ err = <<>>
  /\ called = <<>>
  /\ packageVars = PackageVars
  /\ signals = SetupSignalHandler
  /\ server = NewServer(2)

ConcurrentKinds == {"Service", "Node", "Widget"}

NextConcurrent == \E r \in 1..2 : ListResources(r, ConcurrentKinds)

SpecConcurrent == InitConcurrent /\ [][NextConcurrent]_vars

(***************************************************************************)
(* Properties.                                                             *)
(***************************************************************************)
PriorityZero(columnDefinitions) ==
  SelectSeq(columnDefinitions, LAMBDA c : c.Priority = 0)

(* The signature TableHandler accepts: a function of one parameter returning
   ([]metav1.TableRow, error). *)
ValidShape(f) ==
  /\ f.Kind = "func"
  /\ Len(f.In) = 1
  /\ f.Out = <<TableRowSliceType, ErrorType>>

(* The columns AddHandlers registers for list type t. *)
CatalogColumns(t) ==
  AddHandlersCalls[CHOOSE i \in 1..Len(AddHandlersCalls) :
                     AddHandlersCalls[i].printFunc.In[1] = t].columnDefinitions

Generated == call.op = "GenerateTable" /\ table # <<>>

(* C1: in every table GenerateTable returns on the generator AddHandlers
   populated, each row has as many cells as the table has column definitions. *)
C1_RowCellsMatchColumns ==
  Generated =>
    \A i \in 1..Len(table[1].Rows) :
      Len(table[1].Rows[i].Cells) = Len(table[1].ColumnDefinitions)

(* C2: a TableHandler call whose printFunc is not a function, or does not take
   one parameter, or does not return ([]metav1.TableRow, error), returns an
   error and leaves handlerMap as it was. *)
C2_InvalidHandlerRejected ==
  [][(call'.op = "TableHandler" /\ ~ValidShape(call'.printFunc))
       => (err' # <<>> /\ handlerMap' = handlerMap)]_vars

C2_ThreeParametersRejected ==
  /\ call.op = "TableHandler"
  /\ call.printFunc.Kind = "func"
  /\ Len(call.printFunc.In) = 3
  /\ call.printFunc.Out = <<TableRowSliceType, ErrorType>>
  /\ err # <<>>
  /\ DOMAIN handlerMap = {"*corev1.PodList"}

(* C3: no step removes or changes an entry of handlerMap; a well-formed
   registration for an absent type stores exactly the supplied columns and
   function, and one for a present type returns the duplicate error. *)
C3_FirstRegistrationWins ==
  [][ /\ \A t \in DOMAIN handlerMap :
           t \in DOMAIN handlerMap' /\ handlerMap'[t] = handlerMap[t]
      /\ (call'.op = "TableHandler" /\ ValidShape(call'.printFunc))
           => IF call'.printFunc.In[1] \in DOMAIN handlerMap
              THEN err' = <<"registered duplicate printer for " \o call'.printFunc.In[1]>>
              ELSE /\ err' = <<>>
                   /\ handlerMap'[call'.printFunc.In[1]] =
                        [columnDefinitions |-> call'.columnDefinitions,
                         printFunc |-> call'.printFunc] ]_vars

C3_DuplicateRejected ==
  /\ call.op = "TableHandler"
  /\ err = <<"registered duplicate printer for *corev1.PodList">>
  /\ handlerMap["*corev1.PodList"].columnDefinitions = podColumnDefinitions
  /\ call.columnDefinitions = customColumnDefinitions

(* C4: GenerateTable on an object whose type has no handler returns no table
   and the error naming the type, and calls no print function. *)
C4_UnregisteredTypeError ==
  (call.op = "GenerateTable" /\ call.obj.Type \notin DOMAIN handlerMap) =>
    /\ table = <<>>
    /\ err = <<"no table handler registered for this type " \o call.obj.Type>>
    /\ called = <<>>

C4_UnknownTypeOnPopulatedGenerator ==
  /\ call.op = "GenerateTable"
  /\ call.obj.Type = "*runtime.Unknown"
  /\ "*corev1.NodeList" \in DOMAIN handlerMap
  /\ err = <<"no table handler registered for this type *runtime.Unknown">>

(* C5: when the print function GenerateTable called returned an error,
   GenerateTable returns that same error and no table, and the print function
   returned no rows. *)
C5_RenderErrorPropagated ==
  (call.op = "GenerateTable" /\ called # <<>> /\ called[1].results.err # <<>>) =>
    /\ err = called[1].results.err
    /\ table = <<>>
    /\ called[1].results.rows = <<>>

C5_SecondItemFails ==
  /\ call.op = "GenerateTable"
  /\ call.obj.Type = "*appsv1.ControllerRevisionList"
  /\ Len(call.obj.Items) = 2
  /\ call.obj.Items[1].Name = "r1"
  /\ call.obj.Items[2].Name = "r2"
  /\ called # <<>>
  /\ err = <<"unexpected GroupVersion string: a/b/c">>

(* C6: the column definitions of a returned table are the handler's column
   definitions of priority 0, in their registered order. *)
C6_ColumnsArePriorityZero ==
  Generated =>
    table[1].ColumnDefinitions = PriorityZero(handlerMap[call.obj.Type].columnDefinitions)

C6_NegativeAndPositiveDropped ==
  /\ Generated
  /\ handlerMap[call.obj.Type].columnDefinitions = customColumnDefinitions
  /\ table[1].ColumnDefinitions = << Col("Name", 0), Col("Age", 0) >>

(* C7: on the generator AddHandlers populated, GenerateTable on a list with no
   items, of any type AddHandlers registers, returns no error and a table with
   no rows and that type's columns of priority 0. *)
C7_EmptyListFullColumns ==
  (/\ call.op = "GenerateTable"
   /\ call.obj.Type \in RegisteredListTypes
   /\ call.obj.Items = <<>>) =>
    /\ err = <<>>
    /\ table # <<>>
    /\ table[1].Rows = <<>>
    /\ table[1].ColumnDefinitions = PriorityZero(CatalogColumns(call.obj.Type))

C7_EmptyNodeList ==
  /\ Generated
  /\ call.obj.Type = "*corev1.NodeList"
  /\ call.obj.Items = <<>>
  /\ table[1].Rows = <<>>
  /\ Len(table[1].ColumnDefinitions) = 5

(* C8: a returned table carries the resource version, continue token and
   remaining item count of an object that has list metadata; for an object that
   has only object metadata it carries the object's resource version, an empty
   continue token and no remaining item count. *)
C8_PaginationMetadataCopied ==
  Generated =>
    IF "ListMeta" \in DOMAIN call.obj
    THEN /\ table[1].ResourceVersion = call.obj.ListMeta.ResourceVersion
         /\ table[1].Continue = call.obj.ListMeta.Continue
         /\ table[1].RemainingItemCount = call.obj.ListMeta.RemainingItemCount
    ELSE ("ObjectMeta" \in DOMAIN call.obj) =>
         /\ table[1].ResourceVersion = call.obj.ObjectMeta.ResourceVersion
         /\ table[1].Continue = ""
         /\ table[1].RemainingItemCount = <<>>

C8_ObjectMetadataOnly ==
  /\ Generated
  /\ call.obj.Type = "*corev1.Pod"
  /\ call.obj.ObjectMeta.ResourceVersion = "7"
  /\ table[1].ResourceVersion = "7"

(* C9: a caller that wants wide output receives the columns of priority above
   0 as well as those of priority 0; a caller that does not receives only those
   of priority 0. *)
C9_WideOptionHonoured ==
  Generated =>
    table[1].ColumnDefinitions =
      SelectSeq(handlerMap[call.obj.Type].columnDefinitions,
                LAMBDA c : c.Priority = 0 \/ (call.options.Wide /\ c.Priority > 0))

(* The positions of the age cells in the rows of list type t. *)
AgeIndexes(t) ==
  LET exprs == RowCells(ItemPrinter(handlerMap[t].printFunc.Name)) IN
  { i \in 1..Len(exprs) : exprs[i] \in AgeCells }

WithoutAgeCells(tbl, t) ==
  [tbl EXCEPT !.Rows =
     [r \in 1..Len(tbl.Rows) |->
        [Cells |-> [i \in 1..Len(tbl.Rows[r].Cells) |->
                      IF i \in AgeIndexes(t) THEN "" ELSE tbl.Rows[r].Cells[i]],
         Conditions |-> tbl.Rows[r].Conditions]]]

(* C10: two GenerateTable calls in a row on the same object return tables
   that are equal once the age cells are left out. *)
C10_Deterministic ==
  [][(/\ call.op = "GenerateTable" /\ call'.op = "GenerateTable"
      /\ call'.obj = call.obj
      /\ table # <<>> /\ table' # <<>>)
       => WithoutAgeCells(table'[1], call.obj.Type) = WithoutAgeCells(table[1], call.obj.Type)]_vars

(* C11: the rows of a table GenerateTable returns carry the conditions the
   package declares for the pod's phase, whatever callers did with the tables
   of earlier calls. *)
C11_TablesIndependent ==
  Generated =>
    \A i \in 1..Len(table[1].Rows) :
      table[1].Rows[i].Conditions # <<>> =>
        RowConditions(table[1].Rows[i]) = PackageVars[table[1].Rows[i].Conditions[1]]

(* C12: when GenerateTable returns, the object it was given is as the caller
   passed it: same items in the same order, same maps; the printers that sort
   (FlowSchema lists, ResourceQuota resource names) sort their own slices. *)
C12_InputUnchanged ==
  call.op = "GenerateTable" => call.after = call.obj

(* A FlowSchema list passed out of order: the rows come out sorted. *)
C12_UnsortedFlowSchemaList ==
  /\ Generated
  /\ call.obj.Type = "*flowcontrolv1.FlowSchemaList"
  /\ Len(call.obj.Items) = 2
  /\ call.obj.Items[1].Name = "b"
  /\ call.obj.Items[2].Name = "a"
  /\ table[1].Rows[1].Cells[1] = "a"
  /\ table[1].Rows[2].Cells[1] = "b"

(* The pod of the list GenerateTable was given, and the cells of its row. *)
PodGenerated ==
  /\ Generated
  /\ call.obj.Type = "*corev1.PodList"
  /\ Len(call.obj.Items) = 1
  /\ Len(table[1].Rows) = 1

ThePod == call.obj.Items[1]

ReadyCell == table[1].Rows[1].Cells[2]

ReasonCell == table[1].Rows[1].Cells[3]

RestartsCell == table[1].Rows[1].Cells[4]

SchedulingGated(pod) ==
  \E i \in 1..Len(pod.Status.Conditions) :
    /\ pod.Status.Conditions[i].Type = "PodScheduled"
    /\ pod.Status.Conditions[i].Reason = "SchedulingGated"

(* C13: the Ready cell of a pod row is "<ready>/<total>" with total the number
   of main containers of the spec plus the number of its init containers
   whose restart policy is Always, whatever the statuses are; a pod in phase
   Running with one main container, ready and running, no init containers,
   and nothing else set (no status reason, scheduling gate or deletion
   timestamp) shows "1/1" and "Running". *)
C13_ReadyCellCounts ==
  PodGenerated =>
    /\ \E ready \in 0..(Len(ThePod.Status.ContainerStatuses)
                          + Len(ThePod.Status.InitContainerStatuses)) :
         ReadyCell = ToString(ready) \o "/"
           \o ToString(Len(ThePod.Spec.Containers)
                 + Cardinality({ k \in 1..Len(ThePod.Spec.InitContainers) :
                                   ThePod.Spec.InitContainers[k].RestartPolicy = <<"Always">> }))
    /\ ( /\ ThePod.Status.Phase = "Running"
         /\ Len(ThePod.Spec.Containers) = 1
         /\ ThePod.Spec.InitContainers = <<>>
         /\ Len(ThePod.Status.ContainerStatuses) = 1
         /\ ThePod.Status.ContainerStatuses[1].Ready
         /\ ThePod.Status.ContainerStatuses[1].State.Running # <<>>
         /\ ThePod.Status.Reason = ""
         /\ ThePod.DeletionTimestamp = 0
         /\ ~SchedulingGated(ThePod) )
       => (ReadyCell = "1/1" /\ ReasonCell = "Running")

(* A pod with two main containers, one of them ready, and a restart-always
   init container that has started and is ready: 2 of 3. *)
C13_SidecarCounted ==
  /\ PodGenerated
  /\ Len(ThePod.Spec.Containers) = 2
  /\ ThePod.Spec.InitContainers = <<[Name |-> "i1", RestartPolicy |-> <<"Always">>]>>
  /\ Len(ThePod.Status.InitContainerStatuses) = 1
  /\ ThePod.Status.InitContainerStatuses[1].State.Running # <<>>
  /\ Len(ThePod.Status.ContainerStatuses) = 2
  /\ ThePod.Status.ContainerStatuses[1].State.Running # <<>>
  /\ ThePod.Status.ContainerStatuses[2].State.Waiting # <<>>
  /\ ReadyCell = "2/3"

(* The pod has one init container status, terminated with exit code 2 and no
   reason. *)
SoleInitExitCodeTwo(pod) ==
  /\ Len(pod.Status.InitContainerStatuses) = 1
  /\ pod.Status.InitContainerStatuses[1].State.Terminated # <<>>
  /\ pod.Status.InitContainerStatuses[1].State.Terminated[1].ExitCode = 2
  /\ pod.Status.InitContainerStatuses[1].State.Terminated[1].Reason = ""

(* The row shows the init container's failure and nothing of the main
   container statuses: no ready container, the init container's restarts. *)
InitExitCodeTwoRow ==
  /\ ReasonCell = "Init:ExitCode:2"
  /\ HasPrefix(ReadyCell, "0/")
  /\ RestartsCell = ToString(ThePod.Status.InitContainerStatuses[1].RestartCount)

(* C14, as claimed: every pod whose sole init container status is terminated
   with exit code 2 and an empty reason reports "Init:ExitCode:2", and its
   main container statuses do not reach the reason, the ready count or the
   restart count. *)
C14_InitExitCodeTwo ==
  (PodGenerated /\ SoleInitExitCodeTwo(ThePod)) => InitExitCodeTwoRow

(* C14, amended: the same, for the pods whose init container was not killed
   by a signal and is not a started restart-always container, whose first
   Initialized condition is not True, and that are not being deleted. *)
C14_InitExitCodeTwoBlocking ==
  ( /\ PodGenerated
    /\ SoleInitExitCodeTwo(ThePod)
    /\ ThePod.Status.InitContainerStatuses[1].State.Terminated[1].Signal = 0
    /\ ~( /\ IsRestartableInitContainer(
               InitContainerNamed(ThePod, ThePod.Status.InitContainerStatuses[1].Name))
          /\ ThePod.Status.InitContainerStatuses[1].Started = <<TRUE>> )
    /\ ~isPodInitializedConditionTrue(ThePod.Status)
    /\ ThePod.DeletionTimestamp = 0 )
  => InitExitCodeTwoRow

(* Such a pod with a crash-looping main container and a ready one. *)
C14_BlockedWithMainStatuses ==
  /\ PodGenerated
  /\ SoleInitExitCodeTwo(ThePod)
  /\ ThePod.Status.InitContainerStatuses[1].State.Terminated[1].Signal = 0
  /\ ThePod.Status.InitContainerStatuses[1].Started = <<FALSE>>
  /\ ThePod.Status.Conditions = <<>>
  /\ ThePod.DeletionTimestamp = 0
  /\ Len(ThePod.Status.ContainerStatuses) = 2
  /\ ThePod.Status.ContainerStatuses[1].State.Waiting # <<>>
  /\ ThePod.Status.ContainerStatuses[1].RestartCount = 1
  /\ ThePod.Status.ContainerStatuses[2].Ready
  /\ ReasonCell = "Init:ExitCode:2"
  /\ ReadyCell = "0/2"
  /\ RestartsCell = "2"

(* A container status that makes the scan assign the reason. *)
SetsReason(c) ==
  \/ c.State.Waiting # <<>> /\ c.State.Waiting[1].Reason # ""
  \/ c.State.Terminated # <<>>

ReportsCompleted(c) ==
  /\ ~(c.State.Waiting # <<>> /\ c.State.Waiting[1].Reason # "")
  /\ c.State.Terminated # <<>>
  /\ c.State.Terminated[1].Reason = "Completed"

ReadyAndRunning(c) == c.Ready /\ c.State.Running # <<>> /\ ~SetsReason(c)

(* An init container status that lets the walk go on. *)
InitDone(pod, c) ==
  \/ c.State.Terminated # <<>> /\ c.State.Terminated[1].ExitCode = 0
  \/ /\ \E k \in 1..Len(pod.Spec.InitContainers) :
           /\ pod.Spec.InitContainers[k].Name = c.Name
           /\ \A l \in (k + 1)..Len(pod.Spec.InitContainers) :
                pod.Spec.InitContainers[l].Name # c.Name
           /\ pod.Spec.InitContainers[k].RestartPolicy = <<"Always">>
     /\ c.Started = <<TRUE>>

(* The container statuses are scanned: no init container blocks, or the
   first Initialized condition is True. *)
MainScanned(pod) ==
  \/ \A i \in 1..Len(pod.Status.InitContainerStatuses) :
       InitDone(pod, pod.Status.InitContainerStatuses[i])
  \/ \E i \in 1..Len(pod.Status.Conditions) :
       /\ pod.Status.Conditions[i].Type = "Initialized"
       /\ pod.Status.Conditions[i].Status = "True"
       /\ \A j \in 1..(i - 1) : pod.Status.Conditions[j].Type # "Initialized"

ReadyConditionTrue(pod) ==
  \E i \in 1..Len(pod.Status.Conditions) :
    pod.Status.Conditions[i].Type = "Ready" /\ pod.Status.Conditions[i].Status = "True"

(* C15, as claimed: every pod of phase Succeeded with a container status in
   state Running and no true Ready condition reports "NotReady". *)
C15_SucceededRunningNotReady ==
  ( /\ PodGenerated
    /\ ThePod.Status.Phase = "Succeeded"
    /\ \E i \in 1..Len(ThePod.Status.ContainerStatuses) :
         ThePod.Status.ContainerStatuses[i].State.Running # <<>>
    /\ ~ReadyConditionTrue(ThePod) )
  => ReasonCell = "NotReady"

(* C15, amended: it does when the container statuses are scanned, the first
   status in declaration order that sets a reason is terminated with reason
   "Completed", some status is ready and running, and the pod is not being
   deleted on a lost node. *)
C15_CompletedRunningNotReady ==
  ( /\ PodGenerated
    /\ ThePod.Status.Phase = "Succeeded"
    /\ MainScanned(ThePod)
    /\ \E i \in 1..Len(ThePod.Status.ContainerStatuses) :
         /\ ReportsCompleted(ThePod.Status.ContainerStatuses[i])
         /\ \A j \in 1..(i - 1) : ~SetsReason(ThePod.Status.ContainerStatuses[j])
    /\ \E i \in 1..Len(ThePod.Status.ContainerStatuses) :
         ReadyAndRunning(ThePod.Status.ContainerStatuses[i])
    /\ ~ReadyConditionTrue(ThePod)
    /\ ~(ThePod.DeletionTimestamp # 0 /\ ThePod.Status.Reason = "NodeLost") )
  => (ReasonCell = "NotReady" /\ ReasonCell # "Completed" /\ ReasonCell # ThePod.Status.Phase)

(* A succeeded pod whose first container completed and whose second is
   still running and ready. *)
C15_CompletedWithRunningSidecar ==
  /\ PodGenerated
  /\ ThePod.Status.Phase = "Succeeded"
  /\ ThePod.Status.Conditions = <<>>
  /\ ThePod.Status.InitContainerStatuses = <<>>
  /\ Len(ThePod.Status.ContainerStatuses) = 2
  /\ ThePod.Status.ContainerStatuses[1].State.Terminated # <<>>
  /\ ThePod.Status.ContainerStatuses[1].State.Terminated[1].Reason = "Completed"
  /\ ThePod.Status.ContainerStatuses[2].State.Running # <<>>
  /\ ReasonCell = "NotReady"
  /\ ReadyCell = "1/2"

(* C20: a pod with a PodScheduled condition of reason SchedulingGated reports
   "SchedulingGated", whatever its init container statuses, container
   statuses and deletion timestamp are. *)
C20_SchedulingGatedForced ==
  (PodGenerated /\ SchedulingGated(ThePod)) => ReasonCell = "SchedulingGated"

ItemGenerated(listType) ==
  /\ Generated
  /\ call.obj.Type = listType
  /\ Len(call.obj.Items) = 1
  /\ Len(table[1].Rows) = 1

TheItem == call.obj.Items[1]

TheCells == table[1].Rows[1].Cells

JobConditionTrue(job, conditionType) ==
  \E i \in 1..Len(job.Status.Conditions) :
    /\ job.Status.Conditions[i].Type = conditionType
    /\ job.Status.Conditions[i].Status = "True"

(* The status by precedence, from which conditions are true. *)
PrecedenceStatus(job) ==
  IF JobConditionTrue(job, "Complete") THEN "Complete"
  ELSE IF JobConditionTrue(job, "Failed") THEN "Failed"
  ELSE IF job.DeletionTimestamp # 0 THEN "Terminating"
  ELSE IF JobConditionTrue(job, "Suspended") THEN "Suspended"
  ELSE IF JobConditionTrue(job, "FailureTarget") THEN "FailureTarget"
  ELSE "Running"

(* C16, as claimed: the status of a job is Complete if a Complete condition
   is true, else Failed if a Failed condition is true, else Terminating if
   the job is being deleted, else Suspended, else FailureTarget, else
   Running, in whatever order the conditions are listed. *)
C16_JobStatusPrecedence ==
  ItemGenerated("*batchv1.JobList") => TheCells[2] = PrecedenceStatus(TheItem)

(* C16, amended: the same for the jobs that list each condition type at most
   once. *)
C16_JobStatusPrecedenceDistinctTypes ==
  ( /\ ItemGenerated("*batchv1.JobList")
    /\ \A i, j \in 1..Len(TheItem.Status.Conditions) :
         TheItem.Status.Conditions[i].Type = TheItem.Status.Conditions[j].Type => i = j )
  => TheCells[2] = PrecedenceStatus(TheItem)

(* A job being deleted whose Suspended condition, listed first, and Complete
   condition are both true. *)
C16_SuspendedThenComplete ==
  /\ ItemGenerated("*batchv1.JobList")
  /\ TheItem.Status.Conditions = << [Type |-> "Suspended", Status |-> "True"],
                                    [Type |-> "Complete", Status |-> "True"] >>
  /\ TheItem.DeletionTimestamp # 0
  /\ TheCells[2] = "Complete"

RECURSIVE Flatten(_)
Flatten(seqs) == IF Len(seqs) = 0 THEN <<>> ELSE Head(seqs) \o Flatten(Tail(seqs))

(* The elements each summarizer lists, in their original order. *)
SubsetElements(ss) ==
  IF Len(ss.Ports) = 0 THEN [i \in 1..Len(ss.Addresses) |-> ss.Addresses[i].IP]
  ELSE Flatten([p \in 1..Len(ss.Ports) |->
                  [i \in 1..Len(ss.Addresses) |->
                     ss.Addresses[i].IP \o ":" \o ToString(ss.Ports[p].Port)]])

EndpointsElements(endpoints) ==
  Flatten([s \in 1..Len(endpoints.Subsets) |-> SubsetElements(endpoints.Subsets[s])])

PortElements(slice) == [i \in 1..Len(slice.Ports) |-> PortNum(slice.Ports[i])]

AddressElements(slice) ==
  Flatten([e \in 1..Len(slice.Endpoints) |-> slice.Endpoints[e].Addresses])

HostElements(ingress) ==
  Flatten([i \in 1..Len(ingress.Rules) |->
             IF ingress.Rules[i].Host = "" THEN <<>> ELSE <<ingress.Rules[i].Host>>])

MetricElements(hpa) ==
  [i \in 1..Len(hpa.Spec.Metrics) |->
     HPAMetric(hpa.Spec.Metrics, hpa.Status.CurrentMetrics, i)]

(* The first max elements, and " + <n> more..." exactly when n more exist. *)
Summary(elements, max, sep) ==
  IF Len(elements) > max
  THEN Join(SubSeq(elements, 1, max), sep) \o " + " \o ToString(Len(elements) - max)
         \o " more..."
  ELSE Join(elements, sep)

Summarized(cell, elements, max, sep) ==
  Len(elements) > 0 => cell = Summary(elements, max, sep)

EndpointsSummarized ==
  ItemGenerated("*corev1.EndpointsList") =>
    Summarized(TheCells[2], EndpointsElements(TheItem), 3, ",")

EndpointSliceSummarized ==
  ItemGenerated("*discoveryv1.EndpointSliceList") =>
    /\ Summarized(TheCells[3], PortElements(TheItem), 3, ",")
    /\ Summarized(TheCells[4], AddressElements(TheItem), 3, ",")

HostsSummarized ==
  ItemGenerated("*networkingv1.IngressList") =>
    Summarized(TheCells[3], HostElements(TheItem), 3, ",")

MetricsSummarized ==
  ItemGenerated("*autoscalingv2.HorizontalPodAutoscalerList") =>
    Summarized(TheCells[3], MetricElements(TheItem), 2, ", ")

(* C17: each truncated-list summarizer (Endpoints addresses, EndpointSlice
   ports and endpoints, Ingress hosts, HPA metrics) shows the first 3 elements
   (2 for HPA metrics) in their original order and, exactly when more
   elements exist, " + <n> more..." with n the number of elements left out;
   for Ingress hosts n counts the hosts left out. *)
C17_TruncatedLists ==
  /\ EndpointsSummarized
  /\ EndpointSliceSummarized
  /\ HostsSummarized
  /\ MetricsSummarized

Orderings(n) ==
  { f \in [1..n -> 1..n] : \A i, j \in 1..n : f[i] = f[j] => i = j }

(* Row k shows the name and the matching precedence of item. *)
RowOf(k, item) ==
  /\ table[1].Rows[k].Cells[1] = item.Name
  /\ table[1].Rows[k].Cells[3] = item.MatchingPrecedence

(* a does not come after b: lower matching precedence, or the same and a
   name that is not greater. *)
InOrder(a, b) ==
  \/ a.MatchingPrecedence < b.MatchingPrecedence
  \/ a.MatchingPrecedence = b.MatchingPrecedence /\ ~StringLess(b.Name, a.Name)

(* C18: the rows of a FlowSchema list are one row per item, in ascending
   order of matching precedence and, within one precedence, of name, whatever
   the order of the items. *)
C18_FlowSchemaRowsSorted ==
  (Generated /\ call.obj.Type = "*flowcontrolv1.FlowSchemaList") =>
    /\ Len(table[1].Rows) = Len(call.obj.Items)
    /\ \E f \in Orderings(Len(call.obj.Items)) :
         /\ \A k \in 1..Len(call.obj.Items) : RowOf(k, call.obj.Items[f[k]])
         /\ \A k, l \in 1..Len(call.obj.Items) :
              k < l => InOrder(call.obj.Items[f[k]], call.obj.Items[f[l]])

(* Items a/100, b/50, a/50 come out as a/50, b/50, a/100. *)
C18_ThreeSchemasReordered ==
  /\ Generated
  /\ call.obj.Type = "*flowcontrolv1.FlowSchemaList"
  /\ Len(call.obj.Items) = 3
  /\ call.obj.Items[1].Name = "a" /\ call.obj.Items[1].MatchingPrecedence = 100
  /\ call.obj.Items[2].Name = "b" /\ call.obj.Items[2].MatchingPrecedence = 50
  /\ call.obj.Items[3].Name = "a" /\ call.obj.Items[3].MatchingPrecedence = 50
  /\ RowOf(1, call.obj.Items[3])
  /\ RowOf(2, call.obj.Items[2])
  /\ RowOf(3, call.obj.Items[1])

(* C19: when the first SIGINT or SIGTERM is caught the context is canceled
   and the process keeps running; the process is terminated, with exit code
   1, only once a second signal has been caught. *)
C19_ExitOnSecondSignal ==
  /\ signals.caught >= 1 /\ signals.pc \in {"Exit", "exited"} => signals.ctx = "canceled"
  /\ signals.exit # <<>> => signals.exit = <<1>> /\ signals.caught >= 2

(* The spec's init container that status names has restart policy Always. *)
RestartAlways(pod, status) ==
  \E j \in 1..Len(pod.Spec.InitContainers) :
    /\ pod.Spec.InitContainers[j].Name = status.Name
    /\ pod.Spec.InitContainers[j].RestartPolicy = <<"Always">>

ExitedZero(status) ==
  status.State.Terminated # <<>> /\ status.State.Terminated[1].ExitCode = 0

StartedSidecar(pod, status) ==
  RestartAlways(pod, status) /\ status.Started = <<TRUE>>

(* An init container status that blocks initialization. *)
Blocking(pod, status) == ~ExitedZero(status) /\ ~StartedSidecar(pod, status)

(* The index of the first blocking init container status, 0 when none blocks. *)
FirstBlocking(pod) ==
  IF \E i \in 1..Len(pod.Status.InitContainerStatuses) :
       Blocking(pod, pod.Status.InitContainerStatuses[i])
  THEN CHOOSE i \in 1..Len(pod.Status.InitContainerStatuses) :
         /\ Blocking(pod, pod.Status.InitContainerStatuses[i])
         /\ \A j \in 1..(i - 1) : ~Blocking(pod, pod.Status.InitContainerStatuses[j])
  ELSE 0

InitializedTrue(pod) ==
  \E i \in 1..Len(pod.Status.Conditions) :
    /\ pod.Status.Conditions[i].Type = "Initialized"
    /\ pod.Status.Conditions[i].Status = "True"
    /\ \A j \in 1..(i - 1) : pod.Status.Conditions[j].Type # "Initialized"

MainPhaseRuns(pod) == FirstBlocking(pod) = 0 \/ InitializedTrue(pod)

(* The sum of the restart counts of the statuses whose index is in `counted`. *)
RECURSIVE RestartSum(_, _)
RestartSum(statuses, counted) ==
  IF counted = {} THEN 0
  ELSE statuses[CHOOSE i \in counted : TRUE].RestartCount
         + RestartSum(statuses, counted \ {CHOOSE i \in counted : TRUE})

(* The cells that show a count: "<n>/<total>" and "<n>" or "<n> (... ago)". *)
ShowsReady(n) == HasPrefix(ReadyCell, ToString(n) \o "/")

ShowsRestarts(n) ==
  RestartsCell = ToString(n) \/ HasPrefix(RestartsCell, ToString(n) \o " (")

(* The reason the blocking status at index k (counted from 1) gives. *)
BlockingReason(pod, k, status) ==
  IF status.State.Terminated # <<>>
  THEN (IF status.State.Terminated[1].Reason # ""
        THEN "Init:" \o status.State.Terminated[1].Reason
        ELSE IF status.State.Terminated[1].Signal # 0
        THEN "Init:Signal:" \o ToString(status.State.Terminated[1].Signal)
        ELSE "Init:ExitCode:" \o ToString(status.State.Terminated[1].ExitCode))
  ELSE IF /\ status.State.Waiting # <<>>
          /\ status.State.Waiting[1].Reason \notin {"", "PodInitializing"}
  THEN "Init:" \o status.State.Waiting[1].Reason
  ELSE "Init:" \o ToString(k - 1) \o "/" \o ToString(Len(pod.Spec.InitContainers))

(* C21: when an init container status blocks, the main-container phase does
   not run and the pod is not being deleted, the reason is the one the first
   blocking status gives (Init:Signal:<n>, Init:ExitCode:<n>, Init:<reason> or
   Init:<index>/<init containers of the spec>), the ready count is the number
   of ready started restart-always init containers before it, and the restart
   count is the sum over the statuses up to and including it: the statuses
   after it count for nothing. *)
C21_FirstBlockingInitWins ==
  (/\ PodGenerated
   /\ FirstBlocking(ThePod) # 0
   /\ ~MainPhaseRuns(ThePod)
   /\ ThePod.DeletionTimestamp = 0) =>
    /\ ReasonCell = BlockingReason(ThePod, FirstBlocking(ThePod),
                      ThePod.Status.InitContainerStatuses[FirstBlocking(ThePod)])
    /\ ShowsReady(Cardinality(
         { j \in 1..(FirstBlocking(ThePod) - 1) :
             /\ ~ExitedZero(ThePod.Status.InitContainerStatuses[j])
             /\ ThePod.Status.InitContainerStatuses[j].Ready }))
    /\ ShowsRestarts(RestartSum(ThePod.Status.InitContainerStatuses,
                                1..FirstBlocking(ThePod)))

(* The first init container failed with exit code 2 and restarted once; the
   second, a restart-always one that restarted twice, is running and ready:
   the row shows the first one only. *)
C21_SecondStatusIgnored ==
  /\ PodGenerated
  /\ Len(ThePod.Status.InitContainerStatuses) = 2
  /\ FirstBlocking(ThePod) = 1
  /\ ~MainPhaseRuns(ThePod)
  /\ ThePod.DeletionTimestamp = 0
  /\ StartedSidecar(ThePod, ThePod.Status.InitContainerStatuses[2])
  /\ ThePod.Status.InitContainerStatuses[2].Ready
  /\ ReasonCell = "Init:ExitCode:2"
  /\ ReadyCell = "0/3"
  /\ RestartsCell = "1 (0s ago)"

(* The init container statuses the init phase looked at: all of them, or
   those up to and including the first blocking one. *)
Tallied(pod) ==
  IF FirstBlocking(pod) = 0 THEN 1..Len(pod.Status.InitContainerStatuses)
  ELSE 1..FirstBlocking(pod)

TalliedSidecars(pod) ==
  { j \in Tallied(pod) : RestartAlways(pod, pod.Status.InitContainerStatuses[j]) }

(* C22: the main-container phase runs exactly when no init container status
   blocks or the Initialized condition is true.  When it runs, the restart
   count is the sum over the tallied restart-always init container statuses
   plus the sum over all main container statuses; when it does not, the
   restart count is the sum over the tallied init container statuses and no
   main container counts as ready. *)
C22_MainPhaseRestarts ==
  PodGenerated =>
    IF MainPhaseRuns(ThePod)
    THEN ShowsRestarts(
           RestartSum(ThePod.Status.InitContainerStatuses, TalliedSidecars(ThePod))
             + RestartSum(ThePod.Status.ContainerStatuses,
                          1..Len(ThePod.Status.ContainerStatuses)))
    ELSE /\ ShowsRestarts(RestartSum(ThePod.Status.InitContainerStatuses, Tallied(ThePod)))
         /\ ShowsReady(Cardinality(
              { j \in 1..(FirstBlocking(ThePod) - 1) :
                  /\ ~ExitedZero(ThePod.Status.InitContainerStatuses[j])
                  /\ ThePod.Status.InitContainerStatuses[j].Ready }))

(* A one-shot init container that restarted once and exited 0, a running
   restart-always one that restarted twice, and a main container that
   restarted four times: six restarts. *)
C22_OneShotRestartsLeftOut ==
  /\ PodGenerated
  /\ Len(ThePod.Status.InitContainerStatuses) = 2
  /\ FirstBlocking(ThePod) = 0
  /\ ~RestartAlways(ThePod, ThePod.Status.InitContainerStatuses[1])
  /\ ThePod.Status.InitContainerStatuses[1].RestartCount = 1
  /\ RestartAlways(ThePod, ThePod.Status.InitContainerStatuses[2])
  /\ ThePod.Status.InitContainerStatuses[2].RestartCount = 2
  /\ Len(ThePod.Status.ContainerStatuses) = 2
  /\ ThePod.Status.ContainerStatuses[1].RestartCount = 4
  /\ HasPrefix(RestartsCell, "6 (")

WaitingWithReason(status) ==
  status.State.Waiting # <<>> /\ status.State.Waiting[1].Reason # ""

(* A main container status that overrides the reason. *)
Overrides(status) == WaitingWithReason(status) \/ status.State.Terminated # <<>>

(* The reason an overriding status gives. *)
OverridingReason(status) ==
  IF WaitingWithReason(status) THEN status.State.Waiting[1].Reason
  ELSE IF status.State.Terminated[1].Reason # "" THEN status.State.Terminated[1].Reason
  ELSE IF status.State.Terminated[1].Signal # 0
  THEN "Signal:" \o ToString(status.State.Terminated[1].Signal)
  ELSE "ExitCode:" \o ToString(status.State.Terminated[1].ExitCode)

LowestOverriding(pod) ==
  CHOOSE i \in 1..Len(pod.Status.ContainerStatuses) :
    /\ Overrides(pod.Status.ContainerStatuses[i])
    /\ \A j \in 1..(i - 1) : ~Overrides(pod.Status.ContainerStatuses[j])

(* The main container statuses that are ready and running and do not
   override the reason. *)
ReadyRunning(pod) ==
  { i \in 1..Len(pod.Status.ContainerStatuses) :
      /\ ~Overrides(pod.Status.ContainerStatuses[i])
      /\ pod.Status.ContainerStatuses[i].Ready
      /\ pod.Status.ContainerStatuses[i].State.Running # <<>> }

(* The started restart-always init containers the init phase counted as ready. *)
ReadySidecars(pod) ==
  { j \in Tallied(pod) :
      /\ ~Blocking(pod, pod.Status.InitContainerStatuses[j])
      /\ ~ExitedZero(pod.Status.InitContainerStatuses[j])
      /\ pod.Status.InitContainerStatuses[j].Ready }

(* The locals of printPod when the loop over the container statuses ends. *)
AfterScan(pod) ==
  PodContainerLoop(pod, Len(pod.Status.ContainerStatuses), PodInitLoop(pod, 1, PodStart(pod)))

(* C23: when the main-container phase runs, the reason at the end of the
   scan of the main container statuses is the one given by the status of
   lowest index that is waiting with a reason or terminated, and the row shows
   it unless a later step replaces it (the Completed rule, a deletion
   timestamp); the ready count grows by one for each status that is ready
   and running and neither waiting with a reason nor terminated. *)
C23_LowestIndexReasonWins ==
  (PodGenerated /\ MainPhaseRuns(ThePod)) =>
    /\ (\E i \in 1..Len(ThePod.Status.ContainerStatuses) :
          Overrides(ThePod.Status.ContainerStatuses[i])) =>
         /\ AfterScan(ThePod).reason =
              OverridingReason(ThePod.Status.ContainerStatuses[LowestOverriding(ThePod)])
         /\ (/\ ThePod.DeletionTimestamp = 0
             /\ ~(/\ AfterScan(ThePod).reason = "Completed"
                  /\ ReadyRunning(ThePod) # {})) =>
              ReasonCell =
                OverridingReason(ThePod.Status.ContainerStatuses[LowestOverriding(ThePod)])
    /\ ShowsReady(Cardinality(ReadySidecars(ThePod)) + Cardinality(ReadyRunning(ThePod)))

(* The first container terminated with the reason Error, the second waits in
   CrashLoopBackOff: the row shows Error. *)
C23_FirstContainerReasonShown ==
  /\ PodGenerated
  /\ MainPhaseRuns(ThePod)
  /\ ThePod.DeletionTimestamp = 0
  /\ Len(ThePod.Status.ContainerStatuses) = 2
  /\ ThePod.Status.ContainerStatuses[1].State.Terminated # <<>>
  /\ ThePod.Status.ContainerStatuses[1].State.Terminated[1].Reason = "Error"
  /\ WaitingWithReason(ThePod.Status.ContainerStatuses[2])
  /\ ReasonCell = "Error"

(* Some main container status is in state Running. *)
StillRunning(pod) ==
  \E i \in 1..Len(pod.Status.ContainerStatuses) :
    pod.Status.ContainerStatuses[i].State.Running # <<>>

(* The container statuses give the reason "Completed". *)
ContainersCompleted(pod) ==
  /\ MainPhaseRuns(pod)
  /\ \E i \in 1..Len(pod.Status.ContainerStatuses) : Overrides(pod.Status.ContainerStatuses[i])
  /\ OverridingReason(pod.Status.ContainerStatuses[LowestOverriding(pod)]) = "Completed"

(* C24: a pod that is not being deleted, whose container statuses give the
   reason "Completed" while a container is still running, reports "Running"
   when it has a Ready condition of status True and "NotReady" otherwise; no
   such pod with a running container reports "Completed". *)
C24_CompletedNeverShownWhileRunning ==
  (PodGenerated /\ ThePod.DeletionTimestamp = 0 /\ StillRunning(ThePod)) =>
    /\ ContainersCompleted(ThePod) =>
         ReasonCell = IF ReadyConditionTrue(ThePod) THEN "Running" ELSE "NotReady"
    /\ ReasonCell # "Completed"

(* The reason printPod holds before it looks at the deletion timestamp. *)
ReasonBeforeDeletion(pod) == PodContainers(pod, PodInitLoop(pod, 1, PodStart(pod))).reason

(* C25: a pod with a deletion timestamp and status reason NodeLost reports
   "Unknown"; any other pod with a deletion timestamp and a phase that is
   neither Succeeded nor Failed reports "Terminating", whether or not an init
   container blocks; every other pod reports the reason the earlier phases
   computed. *)
C25_DeletionOverridesLast ==
  PodGenerated =>
    ReasonCell =
      IF ThePod.DeletionTimestamp # 0 /\ ThePod.Status.Reason = "NodeLost" THEN "Unknown"
      ELSE IF ThePod.DeletionTimestamp # 0 /\ ThePod.Status.Phase \notin {"Succeeded", "Failed"}
      THEN "Terminating"
      ELSE ReasonBeforeDeletion(ThePod)

(* A failed pod that is being deleted keeps the reason of its container. *)
C25_DeletedFailedPodKeepsReason ==
  /\ PodGenerated
  /\ ThePod.DeletionTimestamp # 0
  /\ ThePod.Status.Reason = ""
  /\ ThePod.Status.Phase = "Failed"
  /\ Len(ThePod.Status.ContainerStatuses) = 1
  /\ ThePod.Status.ContainerStatuses[1].State.Terminated # <<>>
  /\ ReasonCell = "Error"

(* The finish times of the last terminations of the statuses whose index is
   in `counted`. *)
FinishTimes(statuses, counted) ==
  { statuses[i].LastTerminationState.Terminated[1].FinishedAt :
      i \in { j \in counted : /\ statuses[j].LastTerminationState.Terminated # <<>>
                              /\ statuses[j].LastTerminationState.Terminated[1].FinishedAt # 0 } }

(* The last-termination finish times of the statuses the restart count counts. *)
CountedFinishTimes(pod) ==
  IF MainPhaseRuns(pod)
  THEN FinishTimes(pod.Status.InitContainerStatuses, TalliedSidecars(pod))
         \cup FinishTimes(pod.Status.ContainerStatuses, 1..Len(pod.Status.ContainerStatuses))
  ELSE FinishTimes(pod.Status.InitContainerStatuses, Tallied(pod))

(* The restart count of the statuses counted. *)
CountedRestarts(pod) ==
  IF MainPhaseRuns(pod)
  THEN RestartSum(pod.Status.InitContainerStatuses, TalliedSidecars(pod))
         + RestartSum(pod.Status.ContainerStatuses, 1..Len(pod.Status.ContainerStatuses))
  ELSE RestartSum(pod.Status.InitContainerStatuses, Tallied(pod))

Latest(times) == CHOOSE t \in times : \A u \in times : u <= t

RestartsWithAge(pod, now) ==
  ToString(CountedRestarts(pod)) \o " ("
    \o translateTimestampSince(Latest(CountedFinishTimes(pod)), now) \o " ago)"

(* C26, as claimed: the Restarts cell is "<n> (<duration> ago)", with the
   duration since the latest last-termination finish time among the counted
   statuses, whenever some counted status has one, and "<n>" otherwise. *)
C26_RestartsWithAgeWhenKnown ==
  PodGenerated =>
    RestartsCell =
      IF CountedFinishTimes(ThePod) # {} THEN RestartsWithAge(ThePod, call.now)
      ELSE ToString(CountedRestarts(ThePod))

(* C26, amended: the Restarts cell is "<n> (<duration> ago)" whenever n is
   not zero and some counted status has a last-termination finish time, the
   duration being the one since the latest of them, and "<n>" otherwise. *)
C26_RestartsWithAgeWhenRestarted ==
  PodGenerated =>
    RestartsCell =
      IF CountedRestarts(ThePod) # 0 /\ CountedFinishTimes(ThePod) # {}
      THEN RestartsWithAge(ThePod, call.now)
      ELSE ToString(CountedRestarts(ThePod))

(* A one-shot init container last terminated at 2, the restart-always one and
   the main container at 1: at 2 the cell reads "1s ago", the one-shot
   container not being counted. *)
C26_UncountedTerminationLeftOut ==
  /\ PodGenerated
  /\ call.now = 2
  /\ Len(ThePod.Status.InitContainerStatuses) = 2
  /\ MainPhaseRuns(ThePod)
  /\ ~RestartAlways(ThePod, ThePod.Status.InitContainerStatuses[1])
  /\ ThePod.Status.InitContainerStatuses[1].LastTerminationState.Terminated[1].FinishedAt = 2
  /\ CountedFinishTimes(ThePod) = {1}
  /\ RestartsCell = "6 (1s ago)"

(* A summary cell is not empty and reads `placeholder` when there is nothing
   to list. *)
NeverEmpty(cell, elements, placeholder) ==
  /\ cell # ""
  /\ Len(elements) = 0 => cell = placeholder

(* C27: no truncated-list summary is the empty string: with nothing to list,
   the Endpoints addresses and the HPA metrics read "<none>" and the
   EndpointSlice ports and endpoints read "<unset>"; this covers Endpoints
   with subsets but no addresses, and an Ingress without hosts. *)
C27_SummaryNeverEmpty ==
  /\ ItemGenerated("*corev1.EndpointsList") =>
       NeverEmpty(TheCells[2], EndpointsElements(TheItem), "<none>")
  /\ ItemGenerated("*discoveryv1.EndpointSliceList") =>
       /\ NeverEmpty(TheCells[3], PortElements(TheItem), "<unset>")
       /\ NeverEmpty(TheCells[4], AddressElements(TheItem), "<unset>")
  /\ ItemGenerated("*networkingv1.IngressList") => TheCells[3] # ""
  /\ ItemGenerated("*autoscalingv2.HorizontalPodAutoscalerList") =>
       NeverEmpty(TheCells[3], MetricElements(TheItem), "<none>")

(* Request r has returned. *)
Returned(r) == server.requests[r].pc = "return"

(* C28: a request for a kind IsSupportedKind accepts finds a handler
   registered for the list type of that kind and returns the table that
   handler rendered; a request for any other kind returns the generic
   Name/Namespace/Age listing; no request fails for want of a handler. *)
C28_SupportedKindsRender ==
  \A r \in DOMAIN server.requests :
    Returned(r) =>
      /\ server.requests[r].err # NoHandlerError(
           IF IsSupportedKind(server.requests[r].kind).ok
           THEN mapping[server.requests[r].kind] ELSE "")
      /\ IF IsSupportedKind(server.requests[r].kind).ok
         THEN /\ mapping[server.requests[r].kind] \in DOMAIN handlerMap
              /\ server.requests[r].err = <<>>
              /\ server.requests[r].called # <<>>
              /\ server.requests[r].table # <<>>
         ELSE /\ server.requests[r].err = <<>>
              /\ \E now \in 1..MaxNow :
                   server.requests[r].table = <<GenericTable(server.requests[r].items, now)>>

(* C29: with two requests in flight, the list object a request has decoded
   into still holds that request's items when the request passes it to
   GenerateTable, and the table a request returns has one row per item that
   request fetched, in order, showing the item's name. *)
C29_RequestsRenderOwnItems ==
  \A r \in DOMAIN server.requests :
    /\ (/\ server.requests[r].pc = "GenerateTable"
        /\ IsSupportedKind(server.requests[r].kind).ok) =>
         server.objects[server.requests[r].kind].Items = server.requests[r].items
    /\ (/\ Returned(r)
        /\ IsSupportedKind(server.requests[r].kind).ok
        /\ server.requests[r].table # <<>>) =>
         /\ Len(server.requests[r].table[1].Rows) = Len(server.requests[r].items)
         /\ \A i \in 1..Len(server.requests[r].items) :
              \E c \in 1..Len(server.requests[r].table[1].Rows[i].Cells) :
                server.requests[r].table[1].Rows[i].Cells[c] = server.requests[r].items[i].Name

(* The init container statuses name distinct init containers of the spec,
   and there are no more main container statuses than main containers. *)
StatusesMatchSpec(pod) ==
  /\ \A i \in 1..Len(pod.Status.InitContainerStatuses) :
       /\ \E j \in 1..Len(pod.Spec.InitContainers) :
            pod.Spec.InitContainers[j].Name = pod.Status.InitContainerStatuses[i].Name
       /\ \A k \in 1..Len(pod.Status.InitContainerStatuses) :
            pod.Status.InitContainerStatuses[k].Name = pod.Status.InitContainerStatuses[i].Name
              => k = i
  /\ Len(pod.Status.ContainerStatuses) <= Len(pod.Spec.Containers)

(* totalContainers, from the spec. *)
SpecTotal(pod) ==
  Len(pod.Spec.Containers)
    + Cardinality({ j \in 1..Len(pod.Spec.InitContainers) :
                      pod.Spec.InitContainers[j].RestartPolicy = <<"Always">> })

(* The restart-always init container statuses that are started, ready and
   not terminated with exit code 0. *)
StartedReadySidecars(pod) ==
  { j \in 1..Len(pod.Status.InitContainerStatuses) :
      /\ StartedSidecar(pod, pod.Status.InitContainerStatuses[j])
      /\ pod.Status.InitContainerStatuses[j].Ready
      /\ ~ExitedZero(pod.Status.InitContainerStatuses[j]) }

(* C30: for a pod whose statuses match its spec, the ready count shown is
   at most the total shown, the total being that of the spec, and the ready
   count is the number of main containers counted plus a number of
   restart-always init containers that are all started, ready and not
   terminated with exit code 0. *)
C30_ReadyWithinTotal ==
  (PodGenerated /\ StatusesMatchSpec(ThePod)) =>
    /\ \E ready \in 0..SpecTotal(ThePod) :
         ReadyCell = ToString(ready) \o "/" \o ToString(SpecTotal(ThePod))
    /\ \E sidecars \in SUBSET StartedReadySidecars(ThePod) :
         ShowsReady(Cardinality(sidecars)
                      + IF MainPhaseRuns(ThePod) THEN Cardinality(ReadyRunning(ThePod)) ELSE 0)

(* Two restart-always init containers: the first exited with code 0 while
   marked started and ready, the second is running, started and ready; of
   the two main containers one is ready: two of four. *)
C30_ExitedSidecarNotCounted ==
  /\ PodGenerated
  /\ StatusesMatchSpec(ThePod)
  /\ Len(ThePod.Status.InitContainerStatuses) = 2
  /\ RestartAlways(ThePod, ThePod.Status.InitContainerStatuses[1])
  /\ ExitedZero(ThePod.Status.InitContainerStatuses[1])
  /\ ThePod.Status.InitContainerStatuses[1].Ready
  /\ ThePod.Status.InitContainerStatuses[1].Started = <<TRUE>>
  /\ StartedReadySidecars(ThePod) = {2}
  /\ Cardinality(ReadyRunning(ThePod)) = 1
  /\ ReadyCell = "2/4"

====
